---- MODULE Spec2Model ----
(***************************************************************************)
(* State-machine model of the 3Speak subtitle generator's scheduler        *)
(* (src/src/main.py, src/src/db_manager.py) and of the dashboard's         *)
(* administrative handlers (src/dashboard/app.py).                         *)
(*                                                                         *)
(* The MongoDB collections are the shared state.  The scheduler is one     *)
(* sequential process whose position is pc; every DatabaseManager call is  *)
(* one step, so dashboard requests interleave between any two store        *)
(* operations of the scheduler.  A process crash loses the scheduler's     *)
(* memory and keeps the store.                                             *)
(***************************************************************************)
EXTENDS Integers, Sequences, FiniteSets, TLC

\* ------------------------------------------------------------------ bounds
\* number of events of the environment: dashboard requests that change the
\* store, crashes of the scheduler process, and restarts after a finished run
MaxEvents == 2

\* the longest legacy collection the aggregator is given
MaxLegacy == 2

\* ------------------------------------------------------------- the world
\* Python's None: as a document, as a date (dates are >= 1) and as a field value
NoDoc == [none |-> TRUE]
NoDate == 0
Null == "null"

\* PROCESS_ONLY when it is not set (the empty string)
NoRef == << >>

\* The source collections are written by other services and only read here.
\* world holds their content for the whole behaviour, the pairs a request
\* may name although no source holds them, the authors listed as priority
\* creators, and the collections whose look-ups raise (none in a healthy store).
VARIABLE world

\* the legacy video is older than the embed video and there is no audio
LegacyOlder ==
  [videos |-> << [owner |-> "alice", permlink |-> "p1", created |-> 1,
                  filename |-> "ipfs://v1", status |-> "published"] >>,
   embed |-> << [owner |-> "bob", permlink |-> "p2", createdAt |-> 2,
                 manifest_cid |-> "m2", status |-> "published"] >>,
   audio |-> << >>,
   unknown |-> { << "bob", "gone" >> },
   creators |-> { "bob" },
   failing |-> {}]

\* there is no embed video and the audio item is older than the legacy video
AudioOlder ==
  [videos |-> << [owner |-> "alice", permlink |-> "p1", created |-> 2,
                  filename |-> "ipfs://v1", status |-> "published"] >>,
   embed |-> << >>,
   audio |-> << [owner |-> "carol", permlink |-> "a1", createdAt |-> 1,
                 audio_cid |-> "a1", status |-> "published"] >>,
   unknown |-> {},
   creators |-> { "bob" },
   failing |-> {}]

\* the legacy collection (field created, locator filename)
videos_collection == world.videos

\* the embed collection (field createdAt, locator manifest_cid)
embed_collection == world.embed

\* the audio collection (field createdAt, locator audio_cid)
embed_audio_collection == world.audio

\* (author, permlink) pairs a dashboard request or a store document may name:
\* those of the source documents and those the world lists as being in no
\* source collection
Keys ==
  world.unknown
  \cup { << world.videos[n].owner, world.videos[n].permlink >> : n \in DOMAIN world.videos }
  \cup { << world.embed[n].owner, world.embed[n].permlink >> : n \in DOMAIN world.embed }
  \cup { << world.audio[n].owner, world.audio[n].permlink >> : n \in DOMAIN world.audio }
Authors == { k[1] : k \in Keys }

\* config['languages']: en has no duration limit, es is limited to 1 minute
language_configs ==
  << [code |-> "en", max_duration |-> 0], [code |-> "es", max_duration |-> 1] >>

\* segments[-1].end / 60.0 of the transcription of each item, in minutes
video_duration_min(author, permlink) ==
  IF <<author, permlink>> \in { <<"bob", "p2">>, <<"carol", "a1">> } THEN 2 ELSE 1

\* the subtitles-priority-creators collection
priority_creators_collection == world.creators

\* ---------------------------------------------------------------- helpers
RECURSIVE SeqToSet(_)
SeqToSet(s) == IF s = << >> THEN {} ELSE {Head(s)} \cup SeqToSet(Tail(s))

RECURSIVE SelectSeq2(_, _)
\* the elements of sequence s that are in set S, in s's order
SelectSeq2(s, S) ==
  IF s = << >> THEN << >>
  ELSE (IF Head(s) \in S THEN << Head(s) >> ELSE << >>) \o SelectSeq2(Tail(s), S)

\* Python's sorted()/list.sort() on <<key, value>> pairs: stable, ascending
RECURSIVE InsertStable(_, _)
InsertStable(x, s) ==
  IF s = << >> THEN << x >>
  ELSE IF x[1] < Head(s)[1] THEN << x >> \o s
  ELSE << Head(s) >> \o InsertStable(x, Tail(s))

RECURSIVE SortedStable(_)
SortedStable(s) ==
  IF s = << >> THEN << >>
  ELSE InsertStable(s[Len(s)], SortedStable(SubSeq(s, 1, Len(s) - 1)))

Values(s) == [n \in 1..Len(s) |-> s[n][2]]

Max(S) == CHOOSE x \in S : \A y \in S : y <= x

\* --------------------------------------------------------------- variables
VARIABLES
  \* the store (MongoDB collections written by the program)
  priority_collection,          \* set of [author, permlink, requested_at]
  status_collection,            \* sequence of ProcessingStatus documents
  blacklist_collection,         \* [Keys -> number of item-scope documents]
  blacklist_authors_collection, \* [Authors -> number of author-scope documents]
  subtitles_collection,         \* [Keys -> progress document or None]
  tags_collection,              \* set of Keys that have a tags document
  clock,                        \* datetime.now()
  \* configuration (environment variables read by SubtitleService.__init__)
  enable_ipfs_pin, enable_mongo_write, start_date,
  process_only,                 \* PROCESS_ONLY: an (owner, permlink) pair, or none
  \* the scheduler process
  pc, videos, i, video, lane, effective_start, eligible_languages, result,
  \* the environment's events so far
  events,
  \* history of the run, read by the properties only
  guard, popLog, disp, prioDone, crashes, runs,
  cleanEnq, lastBeacon, cursorAtStart, saved, crashSnap, reproEntries,
  \* the steps inside one language iteration and inside one dashboard handler
  \* (they move only in the specification of the races)
  pending,                      \* the subtitle generated and not yet saved
  inflight,                     \* requests between their look-up and their insert
  madeAt,                       \* history: when each recorded result was generated
  raceReq                       \* history: entries a reprocess queued for an item in flight

store == << priority_collection, status_collection, blacklist_collection,
            blacklist_authors_collection, subtitles_collection, tags_collection,
            clock >>
config == << enable_ipfs_pin, enable_mongo_write, start_date, process_only, world >>
locals == << videos, i, video, lane, effective_start, eligible_languages, result >>
race == << pending, inflight, madeAt, raceReq >>
marks == << cleanEnq, lastBeacon, cursorAtStart, saved, crashSnap, reproEntries, race >>
history == << guard, popLog, disp, prioDone, crashes, runs, marks >>
vars == << store, config, pc, locals, events, history >>

\* --------------------------------------------------- DatabaseManager reads
\* {'filename': {'$exists': True, '$nin': [None, ''], '$regex': '^ipfs://'}}
has_cid(v) == "filename" \in DOMAIN v /\ v.filename \in { "ipfs://v1", "ipfs://v3" }

\* {'<field>': {'$exists': True, '$nin': [None, '']}}
has_field(v, f) == f \in DOMAIN v /\ v[f] \notin { Null, "" }

\* v['_video_type'] = t
Tagged(col, t) == [n \in 1..Len(col) |-> col[n] @@ [video_type |-> t]]

\* v.get('created') or v.get('createdAt') or datetime.min
created_of(v) ==
  IF "created" \in DOMAIN v THEN v.created
  ELSE IF "createdAt" \in DOMAIN v THEN v.createdAt ELSE 0

\* collection.find(query).sort(field, 1), the query given as the set of matches
FindSorted(col, matches) ==
  Values(SortedStable([n \in 1..Len(SelectSeq2(col, matches)) |->
      << created_of(SelectSeq2(col, matches)[n]), SelectSeq2(col, matches)[n] >>]))

\* a merge that concatenates the three lists without sorting them
MergeConcatenated(legacy, embed, audio) == legacy \o embed \o audio

MergeByCreated(legacy, embed, audio) ==
  Values(SortedStable([n \in 1..Len(legacy \o embed \o audio) |->
      << created_of((legacy \o embed \o audio)[n]), (legacy \o embed \o audio)[n] >>]))

\* find() on the named source collection raises
Raises(name) == name \in world.failing

\* a fetch that hands back what it read although a look-up raised
ReturnedAnyway(r) == r

\* try: ... return videos / except Exception: return []
Caught(r) ==
  IF Raises("videos") \/ Raises("embed") \/ Raises("audio") THEN << >> ELSE r

\* a scheduled query without the condition on publish_data
scheduled_query_any_time(v) == has_cid(v) /\ v.status = "scheduled"

scheduled_query(v) ==
  has_cid(v) /\ v.status = "scheduled"
  /\ "publish_data" \in DOMAIN v /\ v.publish_data > clock

\* a query that uses the legacy bound for embed and audio as well
get_videos_since_one_bound(since, embed_start_date) ==
  LET legacy == Tagged(FindSorted(videos_collection,
                  { v \in SeqToSet(videos_collection) :
                      \/ (v.created >= since /\ has_cid(v) /\ v.status = "published")
                      \/ scheduled_query(v) }), "legacy")
      embed == Tagged(FindSorted(embed_collection,
                  { v \in SeqToSet(embed_collection) :
                      v.createdAt >= since /\ has_field(v, "manifest_cid")
                      /\ v.status = "published" }), "embed")
      audio == Tagged(FindSorted(embed_audio_collection,
                  { v \in SeqToSet(embed_audio_collection) :
                      v.createdAt >= since /\ has_field(v, "audio_cid")
                      /\ v.status = "published" }), "audio")
  IN MergeByCreated(legacy, embed, audio)

get_videos_since(since, embed_start_date) ==
  LET embed_since == IF embed_start_date # NoDate THEN embed_start_date ELSE since
      legacy == Tagged(FindSorted(videos_collection,
                  { v \in SeqToSet(videos_collection) :
                      \/ (v.created >= since /\ has_cid(v) /\ v.status = "published")
                      \/ scheduled_query(v) }), "legacy")
      embed == Tagged(FindSorted(embed_collection,
                  { v \in SeqToSet(embed_collection) :
                      v.createdAt >= embed_since /\ has_field(v, "manifest_cid")
                      /\ v.status = "published" }), "embed")
      audio == Tagged(FindSorted(embed_audio_collection,
                  { v \in SeqToSet(embed_audio_collection) :
                      v.createdAt >= embed_since /\ has_field(v, "audio_cid")
                      /\ v.status = "published" }), "audio")
  IN Caught(MergeByCreated(legacy, embed, audio))

get_all_videos_with_cids ==
  LET legacy == Tagged(FindSorted(videos_collection,
                  { v \in SeqToSet(videos_collection) :
                      \/ (has_cid(v) /\ v.status = "published")
                      \/ scheduled_query(v) }), "legacy")
      embed == Tagged(FindSorted(embed_collection,
                  { v \in SeqToSet(embed_collection) :
                      has_field(v, "manifest_cid") /\ v.status = "published" }), "embed")
      audio == Tagged(FindSorted(embed_audio_collection,
                  { v \in SeqToSet(embed_audio_collection) :
                      has_field(v, "audio_cid") /\ v.status = "published" }), "audio")
  IN Caught(MergeByCreated(legacy, embed, audio))

\* collection.find_one({'owner': owner, 'permlink': permlink})
FindOne(col, owner, permlink) ==
  LET hits == { n \in 1..Len(col) : col[n].owner = owner /\ col[n].permlink = permlink }
  IN IF hits = {} THEN NoDoc ELSE col[CHOOSE n \in hits : \A m \in hits : n <= m]

get_video_by_owner_permlink(owner, permlink) ==
  IF FindOne(videos_collection, owner, permlink) # NoDoc
    THEN FindOne(videos_collection, owner, permlink) @@ [video_type |-> "legacy"]
  ELSE IF FindOne(embed_collection, owner, permlink) # NoDoc
    THEN FindOne(embed_collection, owner, permlink) @@ [video_type |-> "embed"]
  ELSE IF FindOne(embed_audio_collection, owner, permlink) # NoDoc
    THEN FindOne(embed_audio_collection, owner, permlink) @@ [video_type |-> "audio"]
  ELSE NoDoc

\* a pop that sorts by requested_at descending
newest_priority_entry ==
  IF priority_collection = {} THEN NoDoc
  ELSE CHOOSE e \in priority_collection :
         \A f \in priority_collection : e.requested_at >= f.requested_at

\* priority_collection.find_one_and_delete({}, sort=[('requested_at', 1)]):
\* the entry it removes and returns, None on an empty collection
oldest_priority_entry ==
  IF priority_collection = {} THEN NoDoc
  ELSE CHOOSE e \in priority_collection :
         \A f \in priority_collection : e.requested_at <= f.requested_at

\* a guard that forgets the author scope
is_blacklisted_item_only(author, permlink) ==
  blacklist_collection[<<author, permlink>>] > 0

\* a look-up in which an item-scope entry blocks every item of its author
is_blacklisted_whole_author(author, permlink) ==
  \/ blacklist_authors_collection[author] > 0
  \/ \E k \in Keys : k[1] = author /\ blacklist_collection[k] > 0

\* a look-up that answers "blocked" when the store fails
is_blacklisted_fail_closed(author, permlink) ==
  IF Raises("blacklist") THEN TRUE
  ELSE IF blacklist_authors_collection[author] > 0 THEN TRUE
  ELSE blacklist_collection[<<author, permlink>>] > 0

\* is_blacklisted(): "except Exception" returns False
is_blacklisted(author, permlink) ==
  IF Raises("blacklist") THEN FALSE
  ELSE IF blacklist_authors_collection[author] > 0 THEN TRUE
  ELSE blacklist_collection[<<author, permlink>>] > 0

get_priority_creators == priority_creators_collection

\* the documents of the progress store
Records == { k \in Keys : subtitles_collection[k] # NoDoc }

\* a cursor read that sorts video_created_at ascending
get_last_processed_video_date_oldest ==
  LET dated == { k \in Records : "video_created_at" \in DOMAIN subtitles_collection[k] }
  IN IF dated = {} THEN NoDate
     ELSE CHOOSE d \in { subtitles_collection[k].video_created_at : k \in dated } :
            \A k \in dated : d <= subtitles_collection[k].video_created_at

\* get_last_processed_video_date(): "except Exception" returns None
get_last_processed_video_date ==
  LET dated == { k \in Records : "video_created_at" \in DOMAIN subtitles_collection[k] }
  IN IF Raises("subtitles") \/ dated = {} THEN NoDate
     ELSE Max({ subtitles_collection[k].video_created_at : k \in dated })

\* a read of the completed languages that finds none
get_existing_subtitle_languages_none(author, permlink) == {}

\* get_existing_subtitle_languages(): "except Exception" returns []
get_existing_subtitle_languages(author, permlink) ==
  IF ~Raises("subtitles") /\ subtitles_collection[<<author, permlink>>] # NoDoc
    THEN DOMAIN subtitles_collection[<<author, permlink>>].subtitles
  ELSE {}

\* -------------------------------------------------- DatabaseManager writes
\* a beacon written with insert_one
set_processing_insert(author, permlink, video_type) ==
  Append(status_collection,
         [author |-> author, permlink |-> permlink,
          isEmbed |-> video_type \in {"embed", "audio"},
          isAudio |-> video_type = "audio"])

\* status_collection.replace_one({}, doc, upsert=True)
set_processing(author, permlink, video_type) ==
  LET doc == [author |-> author, permlink |-> permlink,
              isEmbed |-> video_type \in {"embed", "audio"},
              isAudio |-> video_type = "audio"]
  IN IF Raises("status") THEN status_collection
     ELSE IF status_collection = << >> THEN << doc >>
     ELSE << doc >> \o Tail(status_collection)

\* status_collection.delete_many({}); a failure is logged
clear_processing == IF Raises("status") THEN status_collection ELSE << >>

\* a save that $sets the whole subtitles map to the one language
save_subtitle_overwrite(author, permlink, video_cid, language, subtitle_cid, video_type, video_created_at) ==
  LET old == subtitles_collection[<<author, permlink>>]
      doc ==
        IF old = NoDoc
          THEN [video_cid |-> video_cid, subtitles |-> (language :> subtitle_cid),
                updated_at |-> clock,
                isEmbed |-> video_type \in {"embed", "audio"},
                isAudio |-> video_type = "audio",
                created_at |-> clock]
               @@ (IF video_created_at # NoDate
                     THEN [video_created_at |-> video_created_at] ELSE << >>)
        ELSE [old EXCEPT !.video_cid = video_cid,
                         !.subtitles = (language :> subtitle_cid),
                         !.updated_at = clock]
  IN [subtitles_collection EXCEPT ![<<author, permlink>>] = doc]

\* an upsert that writes the insert-only fields with $set, on every call
save_subtitle_set_all(author, permlink, video_cid, language, subtitle_cid, video_type, video_created_at) ==
  LET old == subtitles_collection[<<author, permlink>>]
      fields ==
        [video_cid |-> video_cid, updated_at |-> clock,
         isEmbed |-> video_type \in {"embed", "audio"},
         isAudio |-> video_type = "audio",
         created_at |-> clock]
        @@ (IF video_created_at # NoDate
              THEN [video_created_at |-> video_created_at] ELSE << >>)
      doc ==
        IF old = NoDoc
          THEN [subtitles |-> (language :> subtitle_cid)] @@ fields
        ELSE fields @@ [old EXCEPT !.subtitles = (language :> subtitle_cid) @@ @]
  IN [subtitles_collection EXCEPT ![<<author, permlink>>] = doc]

\* subtitles_collection.update_one(filter, {$set, $setOnInsert}, upsert=True)
save_subtitle(author, permlink, video_cid, language, subtitle_cid, video_type, video_created_at) ==
  LET old == subtitles_collection[<<author, permlink>>]
      set_on_insert ==
        [isEmbed |-> video_type \in {"embed", "audio"},
         isAudio |-> video_type = "audio",
         created_at |-> clock]
        @@ (IF video_created_at # NoDate
              THEN [video_created_at |-> video_created_at] ELSE << >>)
      doc ==
        IF old = NoDoc
          THEN [video_cid |-> video_cid, subtitles |-> (language :> subtitle_cid),
                updated_at |-> clock]
               @@ set_on_insert
        ELSE [old EXCEPT !.video_cid = video_cid,
                         !.subtitles = (language :> subtitle_cid) @@ @,
                         !.updated_at = clock]
  IN IF Raises("subtitles") THEN subtitles_collection
     ELSE [subtitles_collection EXCEPT ![<<author, permlink>>] = doc]

\* an update made with upsert=True: a missing record is created by it
save_processing_time_upsert(author, permlink) ==
  LET old == subtitles_collection[<<author, permlink>>]
  IN IF old = NoDoc
       THEN [subtitles_collection EXCEPT
               ![<<author, permlink>>] =
                  [processing_seconds |-> "set", subtitles |-> << >>]]
     ELSE [subtitles_collection EXCEPT
             ![<<author, permlink>>] = [processing_seconds |-> "set"] @@ old]

\* subtitles_collection.update_one(filter, {'$set': update}) without upsert
save_processing_time(author, permlink) ==
  LET old == subtitles_collection[<<author, permlink>>]
  IN IF Raises("subtitles") \/ old = NoDoc THEN subtitles_collection
     ELSE [subtitles_collection EXCEPT
             ![<<author, permlink>>] = [processing_seconds |-> "set"] @@ old]

\* tags_collection.update_one(filter, {'$set': document}, upsert=True)
save_tags(author, permlink) == tags_collection \cup { <<author, permlink>> }

\* ------------------------------------------------------------------- Init
\* the languages the progress record of k holds, as the properties read it
RecordedLanguages(k) ==
  IF subtitles_collection[k] = NoDoc THEN {}
  ELSE DOMAIN subtitles_collection[k].subtitles

\* what the properties call blocked: an entry of either scope exists
Blocked(k) == blacklist_authors_collection[k[1]] > 0 \/ blacklist_collection[k] > 0

KeyOf(v) == << v.owner, v.permlink >>

NoDispatch == [recAtStart |-> {}, recAtDiff |-> {}, fetched |-> FALSE, attempted |-> {}]

\* the state a service start begins with, the progress collection apart
InitService ==
  /\ priority_collection = {}
  /\ status_collection = << >>
  /\ blacklist_collection = [k \in Keys |-> 0]
  /\ blacklist_authors_collection = [a \in Authors |-> 0]
  /\ tags_collection = {}
  /\ clock = 3
  /\ pc = "idle"
  /\ videos = << >>
  /\ i = 0
  /\ video = NoDoc
  /\ lane = "none"
  /\ effective_start = NoDate
  /\ eligible_languages = << >>
  /\ result = FALSE
  /\ events = 0
  /\ runs = 0
  /\ guard = NoDoc
  /\ popLog = << >>
  /\ disp = NoDispatch
  /\ prioDone = {}
  /\ crashes = 0
  /\ cleanEnq = {}
  /\ lastBeacon = [op |-> "none"]
  /\ cursorAtStart = NoDate
  /\ saved = {}
  /\ crashSnap = [k \in Keys |-> {}]
  /\ reproEntries = {}
  /\ pending = NoDoc
  /\ inflight = {}
  /\ madeAt = << >>
  /\ raceReq = {}

\* the state every service start begins with on a fresh store, whatever the
\* sources hold
InitCommon ==
  /\ subtitles_collection = [k \in Keys |-> NoDoc]
  /\ InitService

\* a fresh store; the legacy video is the older one
Init ==
  /\ world = LegacyOlder
  /\ enable_ipfs_pin \in BOOLEAN
  /\ enable_mongo_write \in BOOLEAN
  /\ start_date \in { NoDate, 2 }
  /\ process_only = NoRef
  /\ InitCommon

\* a fresh store; the audio item is the older one and both writes are enabled
InitAudioOlder ==
  /\ world = AudioOlder
  /\ enable_ipfs_pin = TRUE
  /\ enable_mongo_write = TRUE
  /\ start_date \in { NoDate, 1, 3 }
  /\ process_only = NoRef
  /\ InitCommon

\* the record an earlier run with both writes enabled left for alice/p1 when
\* it stopped after the first language
PartlyDone ==
  [video_cid |-> "v1", subtitles |-> ("en" :> "Qm"), updated_at |-> 3,
   isEmbed |-> FALSE, isAudio |-> FALSE, created_at |-> 3, video_created_at |-> 1]

\* a restart, under any setting of the two write flags, on the store that
\* holds the record of a partly processed legacy video
InitResumed ==
  /\ world = [LegacyOlder EXCEPT !.unknown = {}]
  /\ enable_ipfs_pin \in BOOLEAN
  /\ enable_mongo_write \in BOOLEAN
  /\ start_date = NoDate
  /\ subtitles_collection =
       [k \in Keys |-> IF k = << "alice", "p1" >> THEN PartlyDone ELSE NoDoc]
  /\ process_only = NoRef
  /\ InitService

\* ---------------------------------------------------- SubtitleService.run
all_lang_codes == { language_configs[n].code : n \in 1..Len(language_configs) }

\* "Use the later of START_DATE and last processed video date"
\* a bound that lets START_DATE win over the cursor whenever it is set
effective_start_date_override_only ==
  IF start_date # NoDate THEN start_date ELSE get_last_processed_video_date

effective_start_date ==
  LET last_processed == get_last_processed_video_date
  IN IF last_processed # NoDate
       THEN IF start_date # NoDate
              THEN (IF start_date >= last_processed THEN start_date ELSE last_processed)
            ELSE last_processed
     ELSE start_date

\* lines 295-317: the one video PROCESS_ONLY names, or the backlog
fetch_videos ==
  IF process_only # NoRef
    THEN LET v == get_video_by_owner_permlink(process_only[1], process_only[2])
         IN IF v = NoDoc THEN << >> ELSE << v >>
  ELSE IF effective_start_date # NoDate
    THEN get_videos_since(effective_start_date, start_date)
  ELSE get_all_videos_with_cids

\* a key that leaves out the creator class
sort_key_type_first(v) ==
  (CASE v.video_type = "embed" -> 0 [] v.video_type = "legacy" -> 1 [] OTHER -> 2) * 2
  + (IF v.status = "published" THEN 0 ELSE 1)

\* the key of videos.sort: (creator class, type_order, published first)
sort_key(v) ==
  (IF v.owner \in get_priority_creators THEN 0 ELSE 1) * 6
  + (CASE v.video_type = "embed" -> 0 [] v.video_type = "legacy" -> 1 [] OTHER -> 2) * 2
  + (IF v.status = "published" THEN 0 ELSE 1)

sort_videos(vs) == Values(SortedStable([n \in 1..Len(vs) |-> << sort_key(vs[n]), vs[n] >>]))

\* the greatest video_created_at over all progress records, as the properties read it
LastRecordedDate ==
  LET dates == { subtitles_collection[k].video_created_at :
                   k \in { r \in Records :
                            "video_created_at" \in DOMAIN subtitles_collection[r] } }
  IN IF dates = {} THEN NoDate
     ELSE CHOOSE d \in dates : \A e \in dates : e <= d

\* run() up to the first iteration of the for loop
StartRun ==
  /\ \/ pc = "idle" /\ events' = events
     \/ pc \in { "done", "interrupted" } /\ events < MaxEvents /\ events' = events + 1
  /\ runs' = runs + 1
  /\ effective_start' = IF process_only # NoRef THEN NoDate ELSE effective_start_date
  /\ IF fetch_videos = << >>
       THEN /\ pc' = "done"
            /\ videos' = << >>
            /\ i' = 0
       ELSE /\ pc' = "drain"
            /\ videos' = sort_videos(fetch_videos)
            /\ i' = 1
  /\ video' = NoDoc
  /\ lane' = "none"
  /\ eligible_languages' = << >>
  /\ result' = FALSE
  /\ prioDone' = {}
  /\ cursorAtStart' = LastRecordedDate
  /\ UNCHANGED << store, config, guard, popLog, disp, crashes, cleanEnq, lastBeacon,
                  saved, crashSnap, reproEntries >>
  /\ UNCHANGED race

\* a pop made of find_one: the entry is returned and stays in the collection
get_priority_video_peek ==
  LET entry == oldest_priority_entry
  IN IF entry = NoDoc THEN [entry |-> NoDoc, deleted |-> {}, video |-> NoDoc]
     ELSE [entry |-> entry, deleted |-> {},
           video |-> get_video_by_owner_permlink(entry.author, entry.permlink)]

\* a pop that deletes the entry only once its video was found
get_priority_video_keep_missing ==
  LET entry == oldest_priority_entry
  IN IF entry = NoDoc THEN [entry |-> NoDoc, deleted |-> {}, video |-> NoDoc]
     ELSE [entry |-> entry,
           deleted |-> IF get_video_by_owner_permlink(entry.author, entry.permlink)
                            = NoDoc THEN {} ELSE { entry },
           video |-> get_video_by_owner_permlink(entry.author, entry.permlink)]

\* get_priority_video(): the entry popped, the documents deleted, the video returned
get_priority_video ==
  LET entry == oldest_priority_entry
  IN IF Raises("priority") \/ entry = NoDoc
       THEN [entry |-> NoDoc, deleted |-> {}, video |-> NoDoc]
     ELSE [entry |-> entry, deleted |-> { entry },
           video |-> get_video_by_owner_permlink(entry.author, entry.permlink)]

\* a drain whose pop waits until the lane holds an entry
DrainPriorityBlocking ==
  /\ oldest_priority_entry # NoDoc
  /\ pc = "drain"
  /\ LET r == get_priority_video
     IN /\ priority_collection' = priority_collection \ r.deleted
        /\ popLog' =
             IF r.entry = NoDoc THEN popLog
             ELSE Append(popLog,
                    [entry |-> r.entry,
                     waiting |-> { e.requested_at :
                                     e \in priority_collection \ { r.entry } }])
        /\ IF r.video = NoDoc
             THEN /\ video' = videos[i]
                  /\ lane' = "normal"
             ELSE /\ video' = r.video
                  /\ lane' = "priority"
  /\ pc' = "check"
  /\ UNCHANGED << status_collection, blacklist_collection, blacklist_authors_collection,
                  subtitles_collection, tags_collection, clock, config, videos, i,
                  effective_start, eligible_languages, result, events,
                  guard, disp, prioDone, crashes, runs, marks >>

\* priority = self.db.get_priority_video(); while priority: ...
DrainPriority ==
  /\ pc = "drain"
  /\ LET r == get_priority_video
     IN /\ priority_collection' = priority_collection \ r.deleted
        /\ popLog' =
             IF r.entry = NoDoc THEN popLog
             ELSE Append(popLog,
                    [entry |-> r.entry,
                     waiting |-> { e.requested_at :
                                     e \in priority_collection \ { r.entry } }])
        /\ IF r.video = NoDoc
             THEN /\ video' = videos[i]
                  /\ lane' = "normal"
             ELSE /\ video' = r.video
                  /\ lane' = "priority"
  /\ pc' = "check"
  /\ UNCHANGED << status_collection, blacklist_collection, blacklist_authors_collection,
                  subtitles_collection, tags_collection, clock, config, videos, i,
                  effective_start, eligible_languages, result, events,
                  guard, disp, prioDone, crashes, runs, marks >>

\* the position after the for loop's body for candidate i
AfterCandidate ==
  /\ i' = i + 1
  /\ pc' = IF i + 1 > Len(videos) THEN "done" ELSE "drain"

\* a priority path that trusts the check made when the entry was enqueued
CheckPriorityUnguarded ==
  /\ pc = "check" /\ lane = "priority"
  /\ guard' = [key |-> KeyOf(video), blocked |-> Blocked(KeyOf(video)),
               lane |-> "priority",
               clean |-> popLog[Len(popLog)].entry.requested_at \in cleanEnq]
  /\ pc' = "set"
  /\ UNCHANGED << store, config, locals, events, popLog, disp, prioDone, crashes, runs,
                  marks >>

\* if self.db.is_blacklisted(p_owner, p_permlink): skip, sleep, pop again
CheckPriority ==
  /\ pc = "check" /\ lane = "priority"
  /\ guard' = [key |-> KeyOf(video), blocked |-> Blocked(KeyOf(video)),
               lane |-> "priority",
               clean |-> popLog[Len(popLog)].entry.requested_at \in cleanEnq]
  /\ pc' = IF is_blacklisted(video.owner, video.permlink) THEN "drain" ELSE "set"
  /\ UNCHANGED << store, config, locals, events, popLog, disp, prioDone, crashes, runs, marks >>

\* if self.db.is_blacklisted(v_owner, v_permlink): continue
CheckNormal ==
  /\ pc = "check" /\ lane = "normal"
  /\ guard' = [key |-> KeyOf(video), blocked |-> Blocked(KeyOf(video)),
               lane |-> "normal", clean |-> FALSE]
  /\ IF is_blacklisted(video.owner, video.permlink)
       THEN AfterCandidate
       ELSE pc' = "set" /\ i' = i
  /\ UNCHANGED << store, config, videos, video, lane, effective_start,
                  eligible_languages, result, events, popLog, disp, prioDone, crashes,
                  runs, marks >>

\* self.db.set_processing(...), then process_video is entered
SetProcessing ==
  /\ pc = "set"
  /\ status_collection' = set_processing(video.owner, video.permlink, video.video_type)
  /\ pc' = "pv_start"
  /\ disp' = NoDispatch
  /\ lastBeacon' = [op |-> "set", key |-> KeyOf(video), video_type |-> video.video_type,
                    replaced |-> status_collection # << >>]
  /\ prioDone' = IF lane = "priority" THEN prioDone \cup { KeyOf(video) } ELSE prioDone
  /\ UNCHANGED << priority_collection, blacklist_collection, blacklist_authors_collection,
                  subtitles_collection, tags_collection, clock, config, locals, events,
                  guard, popLog, crashes, runs, cleanEnq, cursorAtStart, saved, crashSnap,
                  reproEntries >>
  /\ UNCHANGED race

\* the result is counted (success_count or failed_count, which are only
\* logged), self.db.clear_processing(), sleep, and the next pop or candidate
ClearProcessing ==
  /\ pc = "clear"
  /\ status_collection' = clear_processing
  /\ lastBeacon' = [op |-> "clear"]
  /\ IF lane = "priority" THEN pc' = "drain" /\ i' = i ELSE AfterCandidate
  /\ UNCHANGED << priority_collection, blacklist_collection, blacklist_authors_collection,
                  subtitles_collection, tags_collection, clock, config, videos, video,
                  lane, effective_start, eligible_languages, result, events, guard,
                  popLog, disp, prioDone, crashes, runs, cleanEnq, cursorAtStart,
                  saved, crashSnap, reproEntries >>
  /\ UNCHANGED race

\* ------------------------------------------ SubtitleService.process_video
\* filename.removeprefix('ipfs://')
removeprefix_ipfs(f) ==
  CASE f = "ipfs://v1" -> "v1" [] f = "ipfs://v3" -> "v3" [] OTHER -> f

Get(v, f) == IF f \in DOMAIN v THEN v[f] ELSE Null

\* "Extract CID based on video type"
cid_of(v) ==
  IF v.video_type = "audio" THEN Get(v, "audio_cid")
  ELSE IF v.video_type = "embed" THEN Get(v, "manifest_cid")
  ELSE IF Get(v, "filename") \notin { Null, "" }
         THEN removeprefix_ipfs(v.filename) ELSE Null

hls_cid_of(v) ==
  IF v.video_type = "legacy" /\ Get(v, "video_v2") \notin { Null, "" }
    THEN v.video_v2 ELSE Null

\* a test that takes every value, None and '' included, for a CID
NeverFalsy(x) == FALSE

Falsy(x) == x \in { Null, "" }

\* a quick check that compares two lists in different orders
all_languages_done_never(existing) == FALSE

\* "Quick check: skip entirely if all languages are already done"
all_languages_done(existing) ==
  existing # {} /\ \A code \in all_lang_codes : code \in existing

\* "Filter languages by max_duration threshold (0 = no limit, always generate)"
duration_eligible(author, permlink) ==
  { language_configs[n].code : n \in
      { m \in 1..Len(language_configs) :
          \/ language_configs[m].max_duration = 0
          \/ video_duration_min(author, permlink) <= language_configs[m].max_duration } }

\* "Skip languages that already have subtitles in MongoDB"
missing_languages(author, permlink, existing) ==
  IF existing # {} THEN duration_eligible(author, permlink) \ existing
  ELSE duration_eligible(author, permlink)

\* the codes of S in the order of config['languages']
InConfigOrder(S) ==
  LET codes == [n \in 1..Len(language_configs) |-> language_configs[n].code]
  IN SelectSeq2(codes, S)

\* video.get('created') or video.get('createdAt')
video_created_at_of(v) ==
  IF "created" \in DOMAIN v THEN v.created
  ELSE IF "createdAt" \in DOMAIN v THEN v.createdAt ELSE NoDate

\* a return in which False leaves run() through "except Exception"
ReturnOrLeaveRun(r) == pc' = (IF r THEN "clear" ELSE "done") /\ result' = r

\* return from process_video
Return(r) == pc' = "clear" /\ result' = r

\* lines 90-121: the CID, then the quick check against the progress record
PVStart ==
  /\ pc = "pv_start"
  /\ disp' = [disp EXCEPT !.recAtStart = RecordedLanguages(KeyOf(video))]
  /\ IF Falsy(cid_of(video)) /\ Falsy(hls_cid_of(video))
       THEN Return(FALSE)
     ELSE IF all_languages_done(
               get_existing_subtitle_languages(video.owner, video.permlink))
       THEN Return(TRUE)
     ELSE pc' = "pv_fetch" /\ result' = result
  /\ UNCHANGED << store, config, videos, i, video, lane, effective_start,
                  eligible_languages, events, guard, popLog, prioDone, crashes, runs, marks >>

\* lines 128-173: download, transcription, tagging; an exception raised by
\* one of them is caught at line 282 and returns False
PVFetch ==
  /\ pc = "pv_fetch"
  /\ disp' = [disp EXCEPT !.fetched = TRUE]
  /\ \E outcome \in { "ok", "download_failed", "no_segments", "raised" } :
       IF outcome = "ok"
         THEN /\ tags_collection' =
                   IF enable_mongo_write
                     THEN save_tags(video.owner, video.permlink) ELSE tags_collection
              /\ pc' = "pv_diff"
              /\ result' = result
         ELSE /\ tags_collection' = tags_collection
              /\ Return(FALSE)
  /\ UNCHANGED << priority_collection, status_collection, blacklist_collection,
                  blacklist_authors_collection, subtitles_collection, clock, config,
                  videos, i, video, lane, effective_start, eligible_languages, events,
                  guard, popLog, prioDone, crashes, runs, marks >>

\* lines 175-201: the languages to generate, diffed against the progress record
PVDiff ==
  /\ pc = "pv_diff"
  /\ disp' = [disp EXCEPT !.recAtDiff = RecordedLanguages(KeyOf(video))]
  /\ LET missing == missing_languages(video.owner, video.permlink,
                      get_existing_subtitle_languages(video.owner, video.permlink))
     IN IF missing = {}
          THEN /\ Return(TRUE)
               /\ eligible_languages' = << >>
          ELSE /\ eligible_languages' = InConfigOrder(missing)
               /\ pc' = "pv_lang"
               /\ result' = result
  /\ UNCHANGED << store, config, videos, i, video, lane, effective_start, events,
                  guard, popLog, prioDone, crashes, runs, marks >>

\* a language loop that a failed language ends
PVLangEndsAtFailure ==
  /\ pc = "pv_lang"
  /\ LET lang_code == Head(eligible_languages)
     IN /\ disp' = [disp EXCEPT !.attempted = @ \cup { lang_code }]
        /\ \E success \in BOOLEAN, added \in { "Qm", Null } :
             LET subtitle_cid == IF success /\ enable_ipfs_pin THEN added ELSE Null
             IN /\ IF success /\ enable_mongo_write /\ ~Falsy(subtitle_cid)
                     THEN /\ subtitles_collection' =
                               save_subtitle(video.owner, video.permlink, cid_of(video),
                                 lang_code, subtitle_cid, video.video_type,
                                 video_created_at_of(video))
                          /\ saved' = saved \cup { << KeyOf(video), lang_code >> }
                     ELSE UNCHANGED << subtitles_collection, saved >>
                /\ eligible_languages' =
                     IF success THEN Tail(eligible_languages) ELSE << >>
                /\ pc' = IF success /\ Tail(eligible_languages) # << >>
                           THEN "pv_lang" ELSE "pv_time"
  /\ UNCHANGED << priority_collection, status_collection, blacklist_collection,
                  blacklist_authors_collection, tags_collection, clock, config, videos,
                  i, video, lane, effective_start, result, events, guard,
                  popLog, prioDone, crashes, runs, cleanEnq, lastBeacon,
                  cursorAtStart, crashSnap, reproEntries >>
  /\ UNCHANGED race

\* lines 207-266: one iteration of "for lang_code in eligible_languages"
PVLang ==
  /\ pc = "pv_lang"
  /\ LET lang_code == Head(eligible_languages)
     IN /\ disp' = [disp EXCEPT !.attempted = @ \cup { lang_code }]
        /\ \E success \in BOOLEAN, added \in { "Qm", Null } :
             LET subtitle_cid == IF success /\ enable_ipfs_pin THEN added ELSE Null
             IN IF success /\ enable_mongo_write /\ ~Falsy(subtitle_cid)
                  THEN /\ subtitles_collection' =
                            save_subtitle(video.owner, video.permlink, cid_of(video),
                              lang_code, subtitle_cid, video.video_type,
                              video_created_at_of(video))
                       /\ saved' = saved \cup { << KeyOf(video), lang_code >> }
                  ELSE UNCHANGED << subtitles_collection, saved >>
  /\ eligible_languages' = Tail(eligible_languages)
  /\ pc' = IF Tail(eligible_languages) = << >> THEN "pv_time" ELSE "pv_lang"
  /\ UNCHANGED << priority_collection, status_collection, blacklist_collection,
                  blacklist_authors_collection, tags_collection, clock, config, videos,
                  i, video, lane, effective_start, result, events, guard,
                  popLog, prioDone, crashes, runs, cleanEnq, lastBeacon,
                  cursorAtStart, crashSnap, reproEntries >>
  /\ UNCHANGED race

\* lines 268-287: cleanup, then the processing time is recorded; an exception
\* of the cleanup is caught at line 282
PVTime ==
  /\ pc = "pv_time"
  /\ \/ /\ subtitles_collection' =
             IF enable_mongo_write
               THEN save_processing_time(video.owner, video.permlink)
             ELSE subtitles_collection
        /\ Return(TRUE)
        /\ events' = events
     \* cleanup_video raises: "except Exception" returns False
     \/ /\ events < MaxEvents
        /\ events' = events + 1
        /\ subtitles_collection' = subtitles_collection
        /\ Return(FALSE)
  /\ UNCHANGED << priority_collection, status_collection, blacklist_collection,
                  blacklist_authors_collection, tags_collection, clock, config, videos,
                  i, video, lane, effective_start, eligible_languages, history >>

\* the process dies (kill, power loss): memory is lost, the store stays
Crash ==
  /\ pc \notin { "idle", "done", "interrupted" }
  /\ events < MaxEvents
  /\ events' = events + 1
  /\ pc' = "idle"
  /\ videos' = << >>
  /\ i' = 0
  /\ video' = NoDoc
  /\ lane' = "none"
  /\ effective_start' = NoDate
  /\ eligible_languages' = << >>
  /\ result' = FALSE
  /\ crashes' = crashes + 1
  /\ crashSnap' = [k \in Keys |-> RecordedLanguages(k)]
  /\ UNCHANGED << store, config, guard, popLog, disp, prioDone, runs, cleanEnq,
                  lastBeacon, cursorAtStart, saved, reproEntries >>
  /\ UNCHANGED race

\* KeyboardInterrupt during run(): "except KeyboardInterrupt" logs, "finally"
\* calls cleanup(), which closes the connection, and run() returns
Interrupt ==
  /\ pc \notin { "idle", "done", "interrupted" }
  /\ events < MaxEvents
  /\ events' = events + 1
  /\ pc' = "interrupted"
  /\ videos' = << >>
  /\ i' = 0
  /\ video' = NoDoc
  /\ lane' = "none"
  /\ effective_start' = NoDate
  /\ eligible_languages' = << >>
  /\ result' = FALSE
  /\ UNCHANGED << store, config, history >>

\* ------------------------------------------------ dashboard (Flask) handlers
\* the video references a request may carry; the last one has an empty permlink
Refs == Keys \cup { << "alice", "" >> }

WellFormed(ref) == ref[1] # "" /\ ref[2] # ""

Queued(ref) == \E e \in priority_collection : e.author = ref[1] /\ e.permlink = ref[2]

NewEntry(ref) == [author |-> ref[1], permlink |-> ref[2], requested_at |-> clock]

\* an enqueue that inserts the entry before it looks for a queued one
api_prioritize_insert_first(password_ok, ref) ==
  IF ~password_ok THEN [code |-> 403, priority |-> priority_collection]
  ELSE IF ~WellFormed(ref) THEN [code |-> 400, priority |-> priority_collection]
  ELSE IF /\ FindOne(videos_collection, ref[1], ref[2]) = NoDoc
          /\ FindOne(embed_collection, ref[1], ref[2]) = NoDoc
    THEN [code |-> 404, priority |-> priority_collection]
  ELSE IF Queued(ref)
    THEN [code |-> 409, priority |-> priority_collection \cup { NewEntry(ref) }]
  ELSE [code |-> 200, priority |-> priority_collection \cup { NewEntry(ref) }]

\* POST /api/prioritize: the status code and the priority collection after it
api_prioritize(password_ok, ref) ==
  IF ~password_ok THEN [code |-> 403, priority |-> priority_collection]
  ELSE IF ~WellFormed(ref) THEN [code |-> 400, priority |-> priority_collection]
  ELSE IF /\ FindOne(videos_collection, ref[1], ref[2]) = NoDoc
          /\ FindOne(embed_collection, ref[1], ref[2]) = NoDoc
    THEN [code |-> 404, priority |-> priority_collection]
  ELSE IF Queued(ref) THEN [code |-> 409, priority |-> priority_collection]
  ELSE [code |-> 200, priority |-> priority_collection \cup { NewEntry(ref) }]

\* DELETE /api/priority/<item_id>; an entry's requested_at stands for its _id
api_priority_delete(password_ok, item_id) ==
  IF ~password_ok THEN [code |-> 403, priority |-> priority_collection]
  ELSE IF \E e \in priority_collection : e.requested_at = item_id
    THEN [code |-> 200,
          priority |-> { e \in priority_collection : e.requested_at # item_id }]
  ELSE [code |-> 404, priority |-> priority_collection]

\* POST /api/blacklist without the look-up for an existing entry
api_blacklist_add_unchecked(password_ok, ref) ==
  IF ~password_ok THEN [code |-> 403, blacklist |-> blacklist_collection]
  ELSE IF ~WellFormed(ref) THEN [code |-> 400, blacklist |-> blacklist_collection]
  ELSE [code |-> 200, blacklist |-> [blacklist_collection EXCEPT ![ref] = @ + 1]]

\* POST /api/blacklist
api_blacklist_add(password_ok, ref) ==
  IF ~password_ok THEN [code |-> 403, blacklist |-> blacklist_collection]
  ELSE IF ~WellFormed(ref) THEN [code |-> 400, blacklist |-> blacklist_collection]
  ELSE IF blacklist_collection[ref] > 0
    THEN [code |-> 409, blacklist |-> blacklist_collection]
  ELSE [code |-> 200, blacklist |-> [blacklist_collection EXCEPT ![ref] = @ + 1]]

\* DELETE /api/blacklist/<item_id>; the key of a document stands for its _id
api_blacklist_delete(password_ok, item_id) ==
  IF ~password_ok THEN [code |-> 403, blacklist |-> blacklist_collection]
  ELSE IF blacklist_collection[item_id] > 0
    THEN [code |-> 200, blacklist |-> [blacklist_collection EXCEPT ![item_id] = @ - 1]]
  ELSE [code |-> 404, blacklist |-> blacklist_collection]

\* POST /api/blacklist-authors
api_blacklist_authors_add(password_ok, author) ==
  IF ~password_ok THEN [code |-> 403, authors |-> blacklist_authors_collection]
  ELSE IF author = "" THEN [code |-> 400, authors |-> blacklist_authors_collection]
  ELSE IF blacklist_authors_collection[author] > 0
    THEN [code |-> 409, authors |-> blacklist_authors_collection]
  ELSE [code |-> 200,
        authors |-> [blacklist_authors_collection EXCEPT ![author] = @ + 1]]

\* DELETE /api/blacklist-authors/<item_id>
api_blacklist_authors_delete(password_ok, item_id) ==
  IF ~password_ok THEN [code |-> 403, authors |-> blacklist_authors_collection]
  ELSE IF blacklist_authors_collection[item_id] > 0
    THEN [code |-> 200,
          authors |-> [blacklist_authors_collection EXCEPT ![item_id] = @ - 1]]
  ELSE [code |-> 404, authors |-> blacklist_authors_collection]

\* POST /api/reprocess
api_reprocess(password_ok, ref) ==
  IF ~password_ok
    THEN [code |-> 403, subtitles |-> subtitles_collection, tags |-> tags_collection,
          priority |-> priority_collection]
  ELSE IF ~WellFormed(ref)
    THEN [code |-> 400, subtitles |-> subtitles_collection, tags |-> tags_collection,
          priority |-> priority_collection]
  ELSE [code |-> 200,
        subtitles |-> [subtitles_collection EXCEPT ![ref] = NoDoc],
        tags |-> tags_collection \ { ref },
        priority |-> IF Queued(ref) THEN priority_collection
                     ELSE priority_collection \cup { NewEntry(ref) }]

\* a dashboard request: its password is right or wrong, and it names r
Requests(S) ==
  { [password_ok |-> TRUE, arg |-> r] : r \in S }
  \cup { [password_ok |-> FALSE, arg |-> CHOOSE r \in S : TRUE] }

\* one dashboard request; a request that changes the store is an event
AdminStep ==
  /\ events' = IF << priority_collection', blacklist_collection',
                     blacklist_authors_collection', subtitles_collection',
                     tags_collection' >>
                  = << priority_collection, blacklist_collection,
                       blacklist_authors_collection, subtitles_collection,
                       tags_collection >>
                THEN events ELSE events + 1
  /\ UNCHANGED << status_collection, config, pc, locals, guard, popLog, disp,
                  prioDone, crashes, runs, lastBeacon, cursorAtStart, crashSnap >>
  /\ UNCHANGED race

\* the stamps of the entries that were enqueued while their item was not blocked
EnqueuedClean(priority, ref) ==
  IF priority # priority_collection /\ ~Blocked(ref)
    THEN cleanEnq \cup { clock } ELSE cleanEnq

\* datetime.now() moves on when an entry is stamped with it
Stamped(priority) == IF priority = priority_collection THEN clock ELSE clock + 1

ApiPrioritize ==
  /\ events < MaxEvents
  /\ \E req \in Requests(Refs) :
       /\ priority_collection' = api_prioritize(req.password_ok, req.arg).priority
       /\ clock' = Stamped(api_prioritize(req.password_ok, req.arg).priority)
       /\ cleanEnq' = EnqueuedClean(api_prioritize(req.password_ok, req.arg).priority, req.arg)
  /\ UNCHANGED << blacklist_collection, blacklist_authors_collection,
                  subtitles_collection, tags_collection, saved, reproEntries >>
  /\ AdminStep

ApiPriorityDelete ==
  /\ events < MaxEvents
  /\ \E req \in Requests(3..clock) :
       priority_collection' = api_priority_delete(req.password_ok, req.arg).priority
  /\ UNCHANGED << blacklist_collection, blacklist_authors_collection,
                  subtitles_collection, tags_collection, clock, marks >>
  /\ AdminStep

ApiBlacklistAdd ==
  /\ events < MaxEvents
  /\ \E req \in Requests(Refs) :
       blacklist_collection' = api_blacklist_add(req.password_ok, req.arg).blacklist
  /\ UNCHANGED << priority_collection, blacklist_authors_collection,
                  subtitles_collection, tags_collection, clock, marks >>
  /\ AdminStep

ApiBlacklistDelete ==
  /\ events < MaxEvents
  /\ \E req \in Requests(Keys) :
       blacklist_collection' = api_blacklist_delete(req.password_ok, req.arg).blacklist
  /\ UNCHANGED << priority_collection, blacklist_authors_collection,
                  subtitles_collection, tags_collection, clock, marks >>
  /\ AdminStep

ApiBlacklistAuthorsAdd ==
  /\ events < MaxEvents
  /\ \E req \in Requests(Authors \cup { "" }) :
       blacklist_authors_collection' =
         api_blacklist_authors_add(req.password_ok, req.arg).authors
  /\ UNCHANGED << priority_collection, blacklist_collection, subtitles_collection,
                  tags_collection, clock, marks >>
  /\ AdminStep

ApiBlacklistAuthorsDelete ==
  /\ events < MaxEvents
  /\ \E req \in Requests(Authors) :
       blacklist_authors_collection' =
         api_blacklist_authors_delete(req.password_ok, req.arg).authors
  /\ UNCHANGED << priority_collection, blacklist_collection, subtitles_collection,
                  tags_collection, clock, marks >>
  /\ AdminStep

ApiReprocess ==
  /\ events < MaxEvents
  /\ \E req \in Requests(Refs) :
       /\ subtitles_collection' = api_reprocess(req.password_ok, req.arg).subtitles
       /\ tags_collection' = api_reprocess(req.password_ok, req.arg).tags
       /\ priority_collection' = api_reprocess(req.password_ok, req.arg).priority
       /\ clock' = Stamped(api_reprocess(req.password_ok, req.arg).priority)
       /\ cleanEnq' = EnqueuedClean(api_reprocess(req.password_ok, req.arg).priority, req.arg)
       /\ saved' = IF api_reprocess(req.password_ok, req.arg).code = 200
                     THEN { x \in saved : x[1] # req.arg } ELSE saved
       /\ reproEntries' =
            IF /\ api_reprocess(req.password_ok, req.arg).code = 200
               /\ subtitles_collection[req.arg] # NoDoc
              THEN reproEntries \cup
                     { e.requested_at :
                         e \in { f \in api_reprocess(req.password_ok, req.arg).priority :
                                   << f.author, f.permlink >> = req.arg } }
            ELSE reproEntries
  /\ UNCHANGED << blacklist_collection, blacklist_authors_collection >>
  /\ AdminStep

\* ------------------------------------------------------------------- Next
Scheduler ==
  \/ StartRun \/ DrainPriority \/ CheckPriority \/ CheckNormal \/ SetProcessing
  \/ PVStart \/ PVFetch \/ PVDiff \/ PVLang \/ PVTime \/ ClearProcessing

Dashboard ==
  \/ ApiPrioritize \/ ApiPriorityDelete \/ ApiBlacklistAdd \/ ApiBlacklistDelete
  \/ ApiBlacklistAuthorsAdd \/ ApiBlacklistAuthorsDelete \/ ApiReprocess

Next == Scheduler \/ Dashboard \/ Crash \/ Interrupt

Spec == Init /\ [][Next]_vars

SpecAudioOlder == InitAudioOlder /\ [][Next]_vars

SpecResumed == InitResumed /\ [][Next]_vars

\* a fresh store; PROCESS_ONLY names the legacy video or a video that does
\* not exist
InitProcessOnly ==
  /\ world = LegacyOlder
  /\ enable_ipfs_pin = TRUE
  /\ enable_mongo_write = TRUE
  /\ start_date = NoDate
  /\ process_only \in { << "alice", "p1" >>, << "bob", "gone" >> }
  /\ InitCommon

SpecProcessOnly == InitProcessOnly /\ [][Next]_vars

\* a restart on the store of the partly processed video while one of the
\* collections the scheduler uses does not answer its DatabaseManager (the
\* dashboard has a connection of its own)
InitFaulty ==
  /\ world \in { [LegacyOlder EXCEPT !.failing = { c }, !.unknown = {}] :
                  c \in { "priority", "blacklist", "status", "subtitles" } }
  /\ enable_ipfs_pin = TRUE
  /\ enable_mongo_write = TRUE
  /\ start_date = NoDate
  /\ process_only = NoRef
  /\ subtitles_collection =
       [k \in Keys |-> IF k = << "alice", "p1" >> THEN PartlyDone ELSE NoDoc]
  /\ InitService

\* the scheduler and the dashboard, without crashes and interrupts
NextFaulty == Scheduler \/ Dashboard

SpecFaulty == InitFaulty /\ [][NextFaulty]_vars

\* ------------------------------------- the steps between two store calls
\* The scheduler and the dashboard are two processes on one store, and Flask
\* serves each request in a thread of its own: what one of them does between
\* two of its store calls can be interleaved with the store calls of the
\* others. Here the language iteration is taken in two steps (generation up
\* to add_to_ipfs, then save_subtitle) and the two enqueuing handlers in two
\* steps (up to the find_one for a queued entry, then insert_one).

\* lines 208-243 of one iteration: translate, generate, validate, add to IPFS
PVGenerate ==
  /\ pc = "pv_lang"
  /\ LET lang_code == Head(eligible_languages)
     IN /\ disp' = [disp EXCEPT !.attempted = @ \cup { lang_code }]
        /\ \E success \in BOOLEAN, added \in { "Qm", Null } :
             LET subtitle_cid == IF success /\ enable_ipfs_pin THEN added ELSE Null
             IN IF success /\ enable_mongo_write /\ ~Falsy(subtitle_cid)
                  THEN /\ pending' = [language |-> lang_code,
                                      subtitle_cid |-> subtitle_cid, at |-> clock]
                       /\ pc' = "pv_save"
                       /\ eligible_languages' = eligible_languages
                  ELSE /\ pending' = NoDoc
                       /\ eligible_languages' = Tail(eligible_languages)
                       /\ pc' = IF Tail(eligible_languages) = << >>
                                  THEN "pv_time" ELSE "pv_lang"
  /\ UNCHANGED << store, config, videos, i, video, lane, effective_start, result,
                  events, guard, popLog, prioDone, crashes, runs, cleanEnq,
                  lastBeacon, cursorAtStart, saved, crashSnap, reproEntries,
                  inflight, madeAt, raceReq >>

\* lines 245-250 of the same iteration: self.db.save_subtitle(...)
PVSave ==
  /\ pc = "pv_save"
  /\ subtitles_collection' =
       save_subtitle(video.owner, video.permlink, cid_of(video), pending.language,
         pending.subtitle_cid, video.video_type, video_created_at_of(video))
  /\ saved' = saved \cup { << KeyOf(video), pending.language >> }
  /\ madeAt' = (<< KeyOf(video), pending.language >> :> pending.at) @@ madeAt
  /\ pending' = NoDoc
  /\ eligible_languages' = Tail(eligible_languages)
  /\ pc' = IF Tail(eligible_languages) = << >> THEN "pv_time" ELSE "pv_lang"
  /\ UNCHANGED << priority_collection, status_collection, blacklist_collection,
                  blacklist_authors_collection, tags_collection, clock, config, videos,
                  i, video, lane, effective_start, result, events, guard, popLog,
                  disp, prioDone, crashes, runs, cleanEnq, lastBeacon, cursorAtStart,
                  crashSnap, reproEntries, inflight, raceReq >>

\* the status document names the pair: its dispatch is in flight
BeaconNames(ref) ==
  /\ status_collection # << >>
  /\ status_collection[1].author = ref[1]
  /\ status_collection[1].permlink = ref[2]

\* POST /api/prioritize up to line 358: the request passed the password, the
\* format and the existence checks and find_one found no queued entry
PrioritizeLookup ==
  /\ events < MaxEvents
  /\ events' = events + 1
  /\ \E ref \in Keys :
       /\ api_prioritize(TRUE, ref).code = 200
       /\ inflight' = inflight \cup
            { [op |-> "prioritize", ref |-> ref, at |-> clock, racing |-> FALSE,
               had |-> FALSE] }
  /\ UNCHANGED << store, config, pc, locals, guard, popLog, disp, prioDone, crashes,
                  runs, cleanEnq, lastBeacon, cursorAtStart, saved, crashSnap,
                  reproEntries, pending, madeAt, raceReq >>

\* POST /api/prioritize, lines 361-367: priority_col.insert_one(...)
PrioritizeInsert ==
  /\ \E r \in { q \in inflight : q.op = "prioritize" } :
       /\ priority_collection' = priority_collection \cup { NewEntry(r.ref) }
       /\ cleanEnq' = IF Blocked(r.ref) THEN cleanEnq ELSE cleanEnq \cup { clock }
       /\ inflight' = inflight \ { r }
  /\ clock' = clock + 1
  /\ UNCHANGED << status_collection, blacklist_collection, blacklist_authors_collection,
                  subtitles_collection, tags_collection, config, pc, locals, events,
                  guard, popLog, disp, prioDone, crashes, runs, lastBeacon,
                  cursorAtStart, saved, crashSnap, reproEntries, pending, madeAt,
                  raceReq >>

\* POST /api/reprocess up to line 672: the record and the tags are deleted and
\* find_one looks for a queued entry; the time of the request is noted
ReprocessDelete ==
  /\ events < MaxEvents
  /\ events' = events + 1
  /\ \E ref \in Keys :
       /\ subtitles_collection' = api_reprocess(TRUE, ref).subtitles
       /\ tags_collection' = api_reprocess(TRUE, ref).tags
       /\ saved' = { x \in saved : x[1] # ref }
       /\ inflight' =
            IF Queued(ref) THEN inflight
            ELSE inflight \cup
                   { [op |-> "reprocess", ref |-> ref, at |-> clock,
                      racing |-> BeaconNames(ref),
                      had |-> subtitles_collection[ref] # NoDoc] }
  /\ clock' = clock + 1
  /\ UNCHANGED << priority_collection, status_collection, blacklist_collection,
                  blacklist_authors_collection, config, pc, locals, guard, popLog, disp,
                  prioDone, crashes, runs, cleanEnq, lastBeacon, cursorAtStart,
                  crashSnap, reproEntries, pending, madeAt, raceReq >>

\* POST /api/reprocess, lines 673-680: priority_col.insert_one(...)
ReprocessInsert ==
  /\ \E r \in { q \in inflight : q.op = "reprocess" } :
       /\ priority_collection' = priority_collection \cup { NewEntry(r.ref) }
       /\ cleanEnq' = IF Blocked(r.ref) THEN cleanEnq ELSE cleanEnq \cup { clock }
       /\ reproEntries' = IF r.had THEN reproEntries \cup { clock } ELSE reproEntries
       /\ raceReq' = IF r.racing THEN raceReq \cup { [entry |-> clock, at |-> r.at] }
                     ELSE raceReq
       /\ inflight' = inflight \ { r }
  /\ clock' = clock + 1
  /\ UNCHANGED << status_collection, blacklist_collection, blacklist_authors_collection,
                  subtitles_collection, tags_collection, config, pc, locals, events,
                  guard, popLog, disp, prioDone, crashes, runs, lastBeacon,
                  cursorAtStart, saved, crashSnap, pending, madeAt >>

\* a fresh store, both writes enabled, no START_DATE; every pair a request
\* names is the pair of a source document
InitRaces ==
  /\ world = [LegacyOlder EXCEPT !.unknown = {}]
  /\ enable_ipfs_pin = TRUE
  /\ enable_mongo_write = TRUE
  /\ start_date = NoDate
  /\ process_only = NoRef
  /\ InitCommon

NextRaces ==
  \/ StartRun \/ DrainPriority \/ CheckPriority \/ CheckNormal \/ SetProcessing
  \/ PVStart \/ PVFetch \/ PVDiff \/ PVGenerate \/ PVSave \/ PVTime \/ ClearProcessing
  \/ PrioritizeLookup \/ PrioritizeInsert \/ ReprocessDelete \/ ReprocessInsert

SpecRaces == InitRaces /\ [][NextRaces]_vars

\* ------------------------------------------------- a run that is left alone
\* the steps of run() after the fetch: each of them ends (every external call
\* returns), and the loop sleeps two seconds between them at most
RunStep ==
  \/ DrainPriority \/ CheckPriority \/ CheckNormal \/ SetProcessing
  \/ PVStart \/ PVFetch \/ PVDiff \/ PVLang \/ PVTime \/ ClearProcessing

\* runs that are neither killed nor interrupted, and the two requests that
\* enqueue priority entries
NextLive == StartRun \/ RunStep \/ ApiPrioritize \/ ApiReprocess

\* the process is scheduled: a step of the run that is possible is taken
SpecLive == InitRaces /\ [][NextLive]_vars /\ WF_vars(RunStep)

\* ------------------------------------------ the aggregator on drawn sources
\* the permlink of the n-th document of a drawn collection
Permlinks == << "p1", "p3", "p4", "p5" >>

\* legacy documents: published or scheduled, with or without an ipfs://
\* filename, the publish time of a scheduled one now (3) or in the future (4)
LegacyDocs ==
  { [owner |-> "alice", permlink |-> "p", created |-> c, filename |-> f,
     status |-> "published"] : c \in 1..2, f \in { "ipfs://v1", "v1" } }
  \cup { [owner |-> "alice", permlink |-> "p", created |-> c,
          filename |-> "ipfs://v1", status |-> "scheduled", publish_data |-> d] :
           c \in 1..2, d \in 3..4 }
  \cup { [owner |-> "alice", permlink |-> "p", created |-> 1, filename |-> "v1",
          status |-> "scheduled", publish_data |-> 4] }

LegacyCollections ==
  UNION { { [m \in 1..n |-> [l[m] EXCEPT !.permlink = Permlinks[m]]] :
              l \in [1..n -> LegacyDocs] } : n \in 0..MaxLegacy }

EmbedCollections ==
  { << >> }
  \cup { << [owner |-> "bob", permlink |-> "p2", createdAt |-> c,
             manifest_cid |-> m, status |-> "published"] >> :
           c \in 1..2, m \in { "m2", "" } }
  \cup { << [owner |-> "bob", permlink |-> "p2", createdAt |-> 2,
             manifest_cid |-> "m2", status |-> "draft"] >> }

AudioCollections ==
  { << >> }
  \cup { << [owner |-> "carol", permlink |-> "a1", createdAt |-> c,
             audio_cid |-> "a1", status |-> "published"] >> : c \in 1..2 }
  \cup { << [owner |-> "carol", permlink |-> "a1", createdAt |-> 2,
             audio_cid |-> Null, status |-> "published"] >> }

\* any content of the three sources; either no author is a priority creator
\* and at most one source fails to answer, or the legacy owner is a priority
\* creator and every source answers
InitAggregator ==
  /\ world \in
       [videos : LegacyCollections, embed : EmbedCollections,
        audio : AudioCollections, unknown : { {} }, creators : { {} },
        failing : { {}, { "videos" }, { "embed" }, { "audio" } }]
       \cup [videos : LegacyCollections, embed : EmbedCollections,
             audio : AudioCollections, unknown : { {} },
             creators : { { "alice" } }, failing : { {} }]
  /\ enable_ipfs_pin = TRUE
  /\ enable_mongo_write = TRUE
  /\ start_date \in { NoDate, 1, 2 }
  /\ process_only = NoRef
  /\ InitCommon

\* videos = self.db.get_videos_since(since, embed_start_date=self.start_date)
GetVideosSince ==
  /\ pc = "idle"
  /\ \E since \in 1..3 :
       /\ videos' = get_videos_since(since, start_date)
       /\ effective_start' = since
  /\ pc' = "returned_since"
  /\ UNCHANGED << store, config, i, video, lane, eligible_languages, result, events,
                  history >>

\* videos = self.db.get_all_videos_with_cids()
GetAllVideosWithCids ==
  /\ pc = "idle"
  /\ videos' = get_all_videos_with_cids
  /\ effective_start' = NoDate
  /\ pc' = "returned_all"
  /\ UNCHANGED << store, config, i, video, lane, eligible_languages, result, events,
                  history >>

NextAggregator == GetVideosSince \/ GetAllVideosWithCids \/ StartRun

SpecAggregator == InitAggregator /\ [][NextAggregator]_vars


\* ------------------------------------------------------------- properties
\* the candidate is past its guard: the beacon is being set, process_video
\* is running, or it returned and the beacon is not cleared yet
Dispatched == pc \in {"set", "pv_start", "pv_fetch", "pv_diff", "pv_lang", "pv_time", "clear"}

\* the languages an item has to end up with: the configured languages whose
\* duration limit admits the item
RequiredSubTasks(k) ==
  { language_configs[n].code : n \in
      { m \in 1..Len(language_configs) :
          \/ language_configs[m].max_duration = 0
          \/ video_duration_min(k[1], k[2]) <= language_configs[m].max_duration } }

\* C1: a candidate that is blacklisted (item or author scope) when the loop
\* reaches it, on the normal or the priority lane, never gets the beacon set
\* and never enters process_video; the loop moves on to the next candidate.
C1_BlacklistedNeverDispatched ==
  /\ Dispatched => (guard # NoDoc /\ guard.key = KeyOf(video) /\ ~guard.blocked)
  /\ (guard # NoDoc /\ guard.blocked) =>
       pc \in {"drain", "check", "done", "idle", "interrupted"}

C1_Witness ==
  /\ guard # NoDoc /\ guard.blocked /\ guard.lane = "normal"
  /\ blacklist_authors_collection[guard.key[1]] > 0
  /\ blacklist_collection[guard.key] = 0
  /\ pc \in {"drain", "done"}

\* C2: process_video generates a language only if the progress record did
\* not hold it when the missing languages were computed; a dispatch that gets
\* through the language loop has attempted exactly the required languages
\* the record lacked, also after a crash that left a strict subset recorded;
\* every language whose save completed is still on the record.
C2_OnlyMissingLanguagesRun ==
  /\ pc \in {"pv_lang", "pv_time"} =>
       /\ disp.attempted \cap disp.recAtDiff = {}
       /\ disp.attempted \subseteq RequiredSubTasks(KeyOf(video))
  /\ pc = "pv_time" =>
       disp.attempted = RequiredSubTasks(KeyOf(video)) \ disp.recAtDiff
  /\ \A x \in saved : x[2] \in RecordedLanguages(x[1])

C2_Witness ==
  /\ crashes > 0
  /\ pc = "pv_time"
  /\ KeyOf(video) = <<"alice", "p1">>
  /\ crashSnap[<<"alice", "p1">>] = {"en"}
  /\ disp.recAtDiff = {"en"}
  /\ disp.attempted = {"es"}

\* C3 (as the specification states it): a dispatch over an item whose
\* recorded languages equal its required languages downloads nothing,
\* transcribes nothing, generates nothing, and reports success.
C3_CompleteItemDoesNoWork ==
  (pc = "clear" /\ disp.recAtStart = RequiredSubTasks(KeyOf(video))) =>
    (~disp.fetched /\ disp.attempted = {} /\ result = TRUE)

\* C4: the status collection never holds more than one document; after
\* set_processing it holds exactly the document of the latest item, also when
\* a crash left an older one behind, and after clear_processing it is empty.
C4_AtMostOneStatus ==
  /\ Len(status_collection) <= 1
  /\ lastBeacon.op = "set" =>
       status_collection =
         << [author |-> lastBeacon.key[1], permlink |-> lastBeacon.key[2],
             isEmbed |-> lastBeacon.video_type \in {"embed", "audio"},
             isAudio |-> lastBeacon.video_type = "audio"] >>
  /\ lastBeacon.op = "clear" => status_collection = << >>

C4_Witness ==
  /\ lastBeacon.op = "set"
  /\ lastBeacon.replaced
  /\ crashes > 0

\* C5: priority entries are popped in the order they were enqueued: every
\* popped entry is older than each entry that was waiting when it was popped
\* and than each entry popped after it.
C5_PriorityFifo ==
  \A n \in 1..Len(popLog) :
    /\ \A w \in popLog[n].waiting : popLog[n].entry.requested_at < w
    /\ \A m \in 1..(n - 1) :
         popLog[m].entry.requested_at < popLog[n].entry.requested_at

C5_Witness ==
  /\ Len(popLog) = 2
  /\ popLog[1].waiting = { popLog[2].entry.requested_at }

\* C6: a popped priority entry is gone from the priority collection and is
\* never popped a second time, whatever became of it (dispatched, failed,
\* blacklisted, or its video not found).
C6_PoppedOnce ==
  \A n \in 1..Len(popLog) :
    /\ popLog[n].entry \notin priority_collection
    /\ \A m \in 1..Len(popLog) : m # n => popLog[m].entry # popLog[n].entry

C6_Witness ==
  /\ pc = "check"
  /\ lane = "normal"
  /\ Len(popLog) >= 1
  /\ get_video_by_owner_permlink(popLog[Len(popLog)].entry.author,
                                 popLog[Len(popLog)].entry.permlink) = NoDoc

\* C7: the blacklist is consulted when a priority entry is popped, not when
\* it was enqueued: an entry enqueued while its item was not blacklisted and
\* popped while it is never gets the beacon set nor enters process_video.
C7_BlacklistCheckedAtPop ==
  (guard # NoDoc /\ guard.lane = "priority" /\ guard.clean /\ guard.blocked) =>
    ~(Dispatched /\ lane = "priority" /\ KeyOf(video) = guard.key)

C7_Witness ==
  /\ guard # NoDoc
  /\ guard.lane = "priority"
  /\ guard.clean
  /\ guard.blocked
  /\ pc = "drain"

C9_SaveKeepsLanguages ==
  [][PVLang =>
      \A k \in Keys :
        /\ RecordedLanguages(k) \subseteq RecordedLanguages(k)'
        /\ \A l \in RecordedLanguages(k) \ { Head(eligible_languages) } :
             subtitles_collection'[k].subtitles[l] = subtitles_collection[k].subtitles[l]]_vars

C9_Witness ==
  /\ pc = "pv_time"
  /\ disp.attempted = {"en", "es"}
  /\ RecordedLanguages(KeyOf(video)) = {"en", "es"}

\* C10: without START_DATE, a run that starts when the newest
\* video_created_at on the progress records is T uses a lower bound of at
\* least T.
C10_CursorNeverRegresses ==
  (pc \notin { "idle", "interrupted" } /\ start_date = NoDate /\ cursorAtStart # NoDate) =>
    effective_start >= cursorAtStart

C10_Witness ==
  /\ runs >= 2
  /\ pc = "drain"
  /\ start_date = NoDate
  /\ cursorAtStart = 2
  /\ effective_start = 2
  /\ \E k \in Records : "video_created_at" \in DOMAIN subtitles_collection[k]
                        /\ subtitles_collection[k].video_created_at = 1

\* the (author, permlink) pairs of a list of videos
Candidates(vs) == { KeyOf(vs[n]) : n \in 1..Len(vs) }

\* the step of run() that computes the bound and fetches the candidates
SelectionStep == runs' # runs

\* C11 (as the specification states it): the cursor a restart would compute
\* now, the newest video_created_at on the progress records, is never smaller
\* than the cursor the latest restart computed.
C11_CursorMonotonic == LastRecordedDate >= cursorAtStart

\* C12: every entry leaves the priority collection in one step, alone, and
\* either as the entry that step's pop returns or by a cancel that returns
\* nothing to the scheduler; it was never returned by an earlier pop, an entry
\* a pop returns leaves in that same step, and an enqueue never brings back an
\* entry that was popped.
C12_PopOrCancelOnce ==
  [][/\ \A e \in priority_collection \ priority_collection' :
          /\ \A n \in 1..Len(popLog) : popLog[n].entry # e
          /\ priority_collection \ priority_collection' = { e }
          /\ \/ popLog' = popLog
             \/ Len(popLog') = Len(popLog) + 1 /\ popLog'[Len(popLog')].entry = e
     /\ Len(popLog') > Len(popLog) =>
          popLog'[Len(popLog')].entry \in priority_collection \ priority_collection'
     /\ \A e \in priority_collection' \ priority_collection :
          \A n \in 1..Len(popLog) : popLog[n].entry # e]_vars

C12_Witness ==
  /\ runs = 1
  /\ pc = "check"
  /\ lane = "normal"
  /\ clock = 4
  /\ events = 2
  /\ priority_collection = {}
  /\ popLog = << >>

\* C13 (as the specification states it): when a run that had candidates
\* ends, the priority lane is empty: a request that arrived while the last
\* candidate was processed has been popped.
C13_DrainedWhenRunEnds ==
  [][(pc \notin { "idle", "done", "interrupted" } /\ pc' = "done") =>
       priority_collection = {}]_vars

\* C14 (as the specification states it, for a selection that returns no
\* candidate): a run that ends at its selection step leaves no priority
\* request that was waiting when it started.
C14_QueuedAtStartIsPopped ==
  [][(SelectionStep /\ pc' = "done") => priority_collection = {}]_vars

\* C15 (as the specification states it): every selection step returns every
\* published legacy item with a locator, created on or after START_DATE,
\* that has no progress record.
C15_NoLegacyItemSkipped ==
  [][SelectionStep =>
      \A n \in 1..Len(videos_collection) :
        (/\ videos_collection[n].status = "published"
         /\ has_cid(videos_collection[n])
         /\ start_date # NoDate => videos_collection[n].created >= start_date
         /\ subtitles_collection[KeyOf(videos_collection[n])] = NoDoc)
        => KeyOf(videos_collection[n]) \in Candidates(videos')]_vars

\* C16 (as the specification states it): the candidate a finished pass
\* dispatched last, if its processing returned failure or a language it
\* attempted is not on its record, is a candidate of the next pass.
C16_FailedItemIsCandidateAgain ==
  [][(/\ SelectionStep /\ pc = "done"
      /\ lane = "normal" /\ guard # NoDoc
      /\ guard.key = KeyOf(video) /\ ~guard.blocked
      /\ \/ ~result
         \/ ~(disp.attempted \subseteq RecordedLanguages(KeyOf(video))))
     => KeyOf(video) \in Candidates(videos')]_vars

\* the published embed and audio items with a locator created at or after d
EmbedAudioSince(d) ==
  { KeyOf(v) : v \in { w \in SeqToSet(embed_collection) :
                        /\ w.status = "published" /\ has_field(w, "manifest_cid")
                        /\ w.createdAt >= d } }
  \cup { KeyOf(v) : v \in { w \in SeqToSet(embed_audio_collection) :
                        /\ w.status = "published" /\ has_field(w, "audio_cid")
                        /\ w.createdAt >= d } }

\* the published legacy items with a locator created at or after d
LegacySince(d) ==
  { KeyOf(v) : v \in { w \in SeqToSet(videos_collection) :
                        w.status = "published" /\ has_cid(w) /\ w.created >= d } }

C18_BoundsOfSelection ==
  [][(SelectionStep /\ start_date # NoDate) =>
      /\ effective_start' = Max({ start_date, LastRecordedDate })
      /\ Candidates(videos') =
           LegacySince(Max({ start_date, LastRecordedDate }))
           \cup EmbedAudioSince(start_date)
      /\ LastRecordedDate = NoDate => effective_start' = start_date]_vars

C18_Witness ==
  /\ pc = "drain"
  /\ i = 1
  /\ start_date = 1
  /\ cursorAtStart = 2
  /\ effective_start = 2
  /\ Candidates(videos) = { <<"alice", "p1">>, <<"carol", "a1">> }

\* C19 (as the specification states it): a well-formed authorised enqueue
\* answers 404 exactly when the pair is in none of the three source
\* collections, 409 exactly when it is in one and already queued, and
\* otherwise adds one entry stamped with the current time; both errors leave
\* the priority collection unchanged.
C19_EnqueueOutcomes ==
  \A ref \in Keys :
    LET inSource == \/ FindOne(videos_collection, ref[1], ref[2]) # NoDoc
                    \/ FindOne(embed_collection, ref[1], ref[2]) # NoDoc
                    \/ FindOne(embed_audio_collection, ref[1], ref[2]) # NoDoc
        queued == \E e \in priority_collection : << e.author, e.permlink >> = ref
        r == api_prioritize(TRUE, ref)
    IN /\ r.code = 404 <=> ~inSource
       /\ r.code = 409 <=> (inSource /\ queued)
       /\ r.code \in { 404, 409 } => r.priority = priority_collection
       /\ (inSource /\ ~queued) =>
            r.priority = priority_collection \cup
              { [author |-> ref[1], permlink |-> ref[2], requested_at |-> clock] }

\* C20 (as the specification states it): the dispatch of the priority entry
\* a reprocess left for an item whose record it deleted finds no language on
\* the item's record, so it skips none.
C20_ReprocessedDispatchSkipsNothing ==
  (/\ lane = "priority"
   /\ pc \in { "pv_fetch", "pv_diff", "pv_lang", "pv_time", "clear" }
   /\ popLog[Len(popLog)].entry.requested_at \in reproEntries)
  => disp.recAtStart = {}

\* C21: the two blacklists behave as sets under the dashboard's requests.
\* Adding a pair or an author that is already listed is answered 409 and
\* removing an id that is not listed is answered 404, both leaving the
\* collection as it was; and in every reachable state each pair and each
\* author has at most one document.
C21_BlacklistsAreSets ==
  /\ \A k \in Keys :
       /\ blacklist_collection[k] <= 1
       /\ blacklist_collection[k] > 0 =>
            api_blacklist_add(TRUE, k) = [code |-> 409, blacklist |-> blacklist_collection]
       /\ blacklist_collection[k] = 0 =>
            api_blacklist_delete(TRUE, k) = [code |-> 404, blacklist |-> blacklist_collection]
  /\ \A a \in Authors :
       /\ blacklist_authors_collection[a] <= 1
       /\ blacklist_authors_collection[a] > 0 =>
            api_blacklist_authors_add(TRUE, a)
              = [code |-> 409, authors |-> blacklist_authors_collection]
       /\ blacklist_authors_collection[a] = 0 =>
            api_blacklist_authors_delete(TRUE, a)
              = [code |-> 404, authors |-> blacklist_authors_collection]

\* two accepted additions: a pair and an author are listed, each once
C21_Witness ==
  /\ \E k \in Keys : blacklist_collection[k] = 1
  /\ \E a \in Authors : blacklist_authors_collection[a] = 1

\* C22: the blacklist look-up the scheduler makes for an item answers true
\* exactly when an author-scope entry for the item's author exists or an
\* item-scope entry for exactly the item's (author, permlink) exists, so an
\* item-scope entry of another item of the same author does not block it;
\* the look-up changes no collection.
C22_LookupIsEitherScope ==
  [][ (pc = "check" /\ pc' \notin { "check", "idle", "interrupted" }) =>
        /\ (pc' # "set") <=>
             \/ blacklist_authors_collection[video.owner] > 0
             \/ blacklist_collection[<< video.owner, video.permlink >>] > 0
        /\ store' = store ]_vars

\* bob/p2 was looked up and skipped while only the author-scope entry of bob
\* was listed
C22_Witness ==
  /\ guard # NoDoc
  /\ guard.key = << "bob", "p2" >> /\ guard.blocked
  /\ video # NoDoc /\ KeyOf(video) = << "bob", "p2" >>
  /\ pc \in { "drain", "done" }
  /\ blacklist_authors_collection["bob"] = 1
  /\ blacklist_collection[<< "bob", "p2" >>] = 0

\* a returned item without its source-type tag
Untagged(v) == [f \in DOMAIN v \ { "video_type" } |-> v[f]]

\* the source collection a tag names
SourceOf(t) ==
  CASE t = "legacy" -> videos_collection
    [] t = "embed" -> embed_collection
    [] OTHER -> embed_audio_collection

\* created for legacy items, createdAt for embed and audio items
CreationTime(v) == IF v.video_type = "legacy" THEN v.created ELSE v.createdAt

\* the documents of one source type in a returned list
ReturnedOf(t) == { Untagged(videos[n]) : n \in { m \in DOMAIN videos : videos[m].video_type = t } }

\* C23: the list get_videos_since and get_all_videos_with_cids return is the
\* merge of the legacy, embed and audio items in ascending order of creation
\* time: every adjacent pair is non-decreasing, every item is a document of
\* the collection its source-type tag names, and no item occurs twice.
C23_MergedAscendingAndTagged ==
  pc \in { "returned_since", "returned_all" } =>
    /\ \A n \in 1..(Len(videos) - 1) :
         CreationTime(videos[n]) <= CreationTime(videos[n + 1])
    /\ \A n \in DOMAIN videos :
         /\ videos[n].video_type \in { "legacy", "embed", "audio" }
         /\ Untagged(videos[n]) \in SeqToSet(SourceOf(videos[n].video_type))
    /\ \A m, n \in DOMAIN videos : m # n => videos[m] # videos[n]

\* an audio item is returned before a legacy item, which precedes it in the
\* concatenation of the three lists
C23_Witness ==
  /\ pc = "returned_since"
  /\ Len(videos) >= 3
  /\ videos[1].video_type = "audio"
  /\ videos[Len(videos)].video_type = "legacy"
  /\ CreationTime(videos[1]) < CreationTime(videos[Len(videos)])

\* C24: an item is returned exactly when it is eligible. A published item is
\* eligible when it has the locator of its type (a filename that starts with
\* ipfs://, a non-empty manifest_cid, a non-empty audio_cid) and its creation
\* time is not before the bound of its type; a scheduled legacy item is
\* eligible when it has the locator and its publish time is in the future,
\* whatever the bound. A scheduled item whose publish time is not in the
\* future and an item without locator are never returned.
C24_ReturnedIffEligible ==
  (pc \in { "returned_since", "returned_all" } /\ world.failing = {}) =>
    LET legacy_bound == IF pc = "returned_all" THEN NoDate ELSE effective_start
        embed_bound == IF pc = "returned_all" THEN NoDate
                       ELSE IF start_date # NoDate THEN start_date ELSE effective_start
    IN /\ ReturnedOf("legacy") =
            { v \in SeqToSet(videos_collection) :
                /\ v.filename = "ipfs://v1"
                /\ \/ v.status = "published" /\ v.created >= legacy_bound
                   \/ v.status = "scheduled" /\ v.publish_data > clock }
       /\ ReturnedOf("embed") =
            { v \in SeqToSet(embed_collection) :
                v.status = "published" /\ v.manifest_cid = "m2"
                /\ v.createdAt >= embed_bound }
       /\ ReturnedOf("audio") =
            { v \in SeqToSet(embed_audio_collection) :
                v.status = "published" /\ v.audio_cid = "a1"
                /\ v.createdAt >= embed_bound }

\* a scheduled item older than the bound is returned because its publish
\* time is in the future, and one whose publish time is now is left out
C24_Witness ==
  /\ pc = "returned_since" /\ world.failing = {}
  /\ \E v \in ReturnedOf("legacy") :
       v.status = "scheduled" /\ v.created < effective_start
  /\ \E v \in SeqToSet(videos_collection) \ ReturnedOf("legacy") :
       v.status = "scheduled" /\ v.filename = "ipfs://v1" /\ v.publish_data = clock

\* C25: when the look-up in one of the three source collections fails, the
\* aggregator returns the empty list, and a run that starts then ends at
\* once, as with no candidate, leaving every collection as it was.
C25_LookupFailureEndsBatch ==
  world.failing # {} =>
    /\ videos = << >>
    /\ pc \in { "idle", "returned_since", "returned_all", "done" }
    /\ priority_collection = {} /\ status_collection = << >>
    /\ Records = {} /\ tags_collection = {}
    /\ \A k \in Keys : blacklist_collection[k] = 0
    /\ \A a \in Authors : blacklist_authors_collection[a] = 0

\* a run ended at once although the legacy collection holds an eligible
\* item: the look-up in the embed collection failed
C25_Witness ==
  /\ world.failing = { "embed" }
  /\ pc = "done" /\ runs = 1
  /\ \E v \in SeqToSet(videos_collection) :
       v.status = "published" /\ v.filename = "ipfs://v1"

\* C26 (as the specification states it): a run that was interrupted from the
\* keyboard, and that no crash preceded, leaves no ProcessingStatus behind
\* when run() has returned.
C26_InterruptLeavesNoBeacon ==
  (pc = "interrupted" /\ crashes = 0) => status_collection = << >>

\* the positions of the scheduler at which an item is being executed or
\* finalized: inside process_video and before clear_processing
InFlight == { "pv_start", "pv_fetch", "pv_diff", "pv_lang", "pv_time", "clear" }

\* C27 (as the specification states it): while no crash has happened, a
\* ProcessingStatus exists exactly while the scheduler executes or finalizes
\* an item of either lane, and it names that item and its source type; at
\* every other position (selection, between candidates, after the run) the
\* status collection is empty.
C27_BeaconExactlyWhileInFlight ==
  crashes = 0 =>
    IF pc \in InFlight
      THEN /\ Len(status_collection) = 1
           /\ status_collection[1].author = video.owner
           /\ status_collection[1].permlink = video.permlink
           /\ status_collection[1].isEmbed = (video.video_type \in { "embed", "audio" })
           /\ status_collection[1].isAudio = (video.video_type = "audio")
    ELSE status_collection = << >>

\* C28: where process_video saves a language, a save_subtitle call for an
\* item that has a progress record leaves created_at, video_created_at,
\* isEmbed and isAudio of the record as the inserting call wrote them,
\* whatever source type and creation date the call passes, and sets the
\* language's result and updated_at; a call for an item without record
\* writes the four fields from its own arguments.
C28_InsertOnlyFieldsKept ==
  pc = "pv_lang" =>
    \A video_type \in { "legacy", "embed", "audio" }, video_created_at \in { NoDate, 1, 2 } :
      LET language == Head(eligible_languages)
          old == subtitles_collection[KeyOf(video)]
          new == save_subtitle(video.owner, video.permlink, cid_of(video), language,
                               "Qm", video_type, video_created_at)[KeyOf(video)]
      IN /\ new.subtitles[language] = "Qm"
         /\ new.updated_at = clock
         /\ IF old # NoDoc
              THEN /\ new.isEmbed = old.isEmbed
                   /\ new.isAudio = old.isAudio
                   /\ new.created_at = old.created_at
                   /\ ("video_created_at" \in DOMAIN new)
                        = ("video_created_at" \in DOMAIN old)
                   /\ "video_created_at" \in DOMAIN old =>
                        new.video_created_at = old.video_created_at
              ELSE /\ new.isEmbed = (video_type \in { "embed", "audio" })
                   /\ new.isAudio = (video_type = "audio")
                   /\ new.created_at = clock
                   /\ ("video_created_at" \in DOMAIN new) = (video_created_at # NoDate)
                   /\ video_created_at # NoDate => new.video_created_at = video_created_at

\* the record of alice/p1 was inserted at an earlier time by the save of en
\* and the save of es is about to update it
C28_Witness ==
  /\ pc = "pv_lang" /\ KeyOf(video) = << "alice", "p1" >>
  /\ Head(eligible_languages) = "es"
  /\ subtitles_collection[<< "alice", "p1" >>] # NoDoc
  /\ DOMAIN subtitles_collection[<< "alice", "p1" >>].subtitles = { "en" }
  /\ subtitles_collection[<< "alice", "p1" >>].created_at < clock
  /\ subtitles_collection[<< "alice", "p1" >>].video_created_at = 1

\* the positions inside process_video
InProcessVideo == { "pv_start", "pv_fetch", "pv_diff", "pv_lang", "pv_time" }

\* C29: an error raised while a candidate is executed or finalized does not
\* leave the loop. Every step out of process_video returns to the loop, and
\* an exception of the finalization returns False, which the loop counts as
\* a failure; the loop then clears the beacon and moves to the next
\* candidate, and the run ends only after the last candidate of the fetched
\* list.
C29_FailureDoesNotEndTheLoop ==
  [][ /\ (pc \in InProcessVideo /\ pc' \notin InProcessVideo \cup { "idle", "interrupted" })
           => (pc' = "clear" /\ videos' = videos /\ i' = i)
      /\ (pc = "pv_time" /\ pc' = "clear" /\ events' # events)
           => (~result' /\ status_collection' = status_collection)
      /\ (pc = "pv_fetch" /\ pc' = "clear") => ~result'
      /\ (pc = "clear" /\ lane = "normal" /\ pc' \notin { "clear", "idle", "interrupted" })
           => /\ status_collection' = << >>
              /\ videos' = videos /\ i' = i + 1
              /\ pc' = IF i < Len(videos) THEN "drain" ELSE "done"
      /\ (pc \notin { "idle", "done", "interrupted" } /\ pc' = "done")
           => i' = Len(videos) + 1 ]_vars

\* the first of two candidates failed after its download was attempted, the
\* beacon is cleared and the loop is at the second candidate
C29_Witness ==
  /\ crashes = 0 /\ pc = "drain" /\ lane = "normal"
  /\ Len(videos) = 2 /\ i = 2
  /\ guard # NoDoc /\ guard.key = KeyOf(videos[1]) /\ ~guard.blocked
  /\ disp.fetched /\ ~result
  /\ status_collection = << >>

\* C30: the failure of one language does not end the language loop. Each
\* iteration, whether its translation, generation or save failed or not,
\* goes on with the next eligible language and leaves the results of the
\* other recorded languages as they were, so a dispatch that reaches the end
\* of the loop has attempted every eligible language the record lacked.
C30_LanguageFailureIsIsolated ==
  [][ (pc = "pv_lang" /\ disp'.attempted # disp.attempted) =>
        /\ eligible_languages' = Tail(eligible_languages)
        /\ pc' = IF Tail(eligible_languages) = << >> THEN "pv_time" ELSE "pv_lang"
        /\ \A l \in RecordedLanguages(KeyOf(video)) \ { Head(eligible_languages) } :
             /\ subtitles_collection'[KeyOf(video)] # NoDoc
             /\ l \in DOMAIN subtitles_collection'[KeyOf(video)].subtitles
             /\ subtitles_collection'[KeyOf(video)].subtitles[l]
                  = subtitles_collection[KeyOf(video)].subtitles[l]
        /\ pc' = "pv_time" =>
             disp'.attempted
               = duration_eligible(video.owner, video.permlink) \ disp.recAtDiff ]_vars

\* with both writes enabled and no dashboard request, en failed and es was
\* attempted after it and recorded
C30_Witness ==
  /\ events = 0 /\ pc = "pv_time"
  /\ enable_ipfs_pin /\ enable_mongo_write
  /\ disp.recAtDiff = {}
  /\ disp.attempted = { "en", "es" }
  /\ RecordedLanguages(KeyOf(video)) = { "es" }

\* C31: when the store fails, every DatabaseManager operation the scheduler
\* calls returns its empty or false value instead of raising, and run() goes
\* on: a failed pop is an empty lane, a failed blacklist look-up is "not
\* blocked", a failed beacon write or clear changes nothing, a failed read of
\* the existing languages is the empty set, a failed save leaves the record
\* as it was, and a failed cursor read is "no cursor".
C31_StoreFailureIsEmptyOrFalse ==
  [][ /\ (Raises("priority") /\ pc = "drain" /\ pc' # pc) =>
           /\ pc' = "check" /\ lane' = "normal" /\ video' = videos[i]
           /\ priority_collection' = priority_collection
      /\ (Raises("blacklist") /\ pc = "check" /\ pc' # pc) => pc' = "set"
      /\ (Raises("status") /\ pc = "set" /\ pc' # pc) =>
           pc' = "pv_start" /\ status_collection' = status_collection
      /\ (Raises("status") /\ pc = "clear" /\ pc' # pc) =>
           pc' \in { "drain", "done" } /\ status_collection' = status_collection
      /\ (Raises("subtitles") /\ pc = "pv_diff" /\ pc' # pc) =>
           /\ pc' = "pv_lang"
           /\ eligible_languages'
                = InConfigOrder(duration_eligible(video.owner, video.permlink))
      /\ (/\ Raises("subtitles") /\ pc \in { "pv_lang", "pv_time" }
          /\ << pc, eligible_languages >>' # << pc, eligible_languages >>) =>
           /\ pc' \in { "pv_lang", "pv_time", "clear" }
           /\ subtitles_collection' = subtitles_collection
      /\ (Raises("subtitles") /\ pc \in { "idle", "done" } /\ pc' # pc) =>
           effective_start' = start_date ]_vars

\* the blacklist look-up fails while alice is blacklisted: alice/p1 is
\* dispatched as if it were not blocked
C31_Witness ==
  /\ Raises("blacklist")
  /\ pc = "pv_start"
  /\ KeyOf(video) = << "alice", "p1" >>
  /\ blacklist_authors_collection["alice"] > 0

\* C32: a drain phase pops the lane until it is empty. A phase that turns to
\* the normal candidate at its first pop leaves in the priority collection
\* none of the entries that were queued when that pop was made, whether the
\* popped entry named an existing, a missing or a blacklisted item.
C32_DrainLeavesNoEarlierEntry ==
  [][ (pc = "drain" /\ lane # "priority" /\ pc' = "check" /\ lane' = "normal") =>
        priority_collection' \cap priority_collection = {} ]_vars

\* the rank of a source type in the dispatch order
TypeRank(v) ==
  CASE v.video_type = "embed" -> 0 [] v.video_type = "legacy" -> 1 [] OTHER -> 2

\* v and w agree on creator class, source type and published-or-not
SameKeys(v, w) ==
  /\ (v.owner \in priority_creators_collection)
       = (w.owner \in priority_creators_collection)
  /\ v.video_type = w.video_type
  /\ (v.status = "published") = (w.status = "published")

\* C33: the normal backlog of a run is in the order priority creators, embed,
\* published legacy, scheduled, audio. No item of a priority creator comes
\* after an item of another creator; within one creator class embed comes
\* before legacy and legacy before audio; within one type a published item
\* comes before a scheduled one; items equal on the three keys are in
\* ascending order of creation time.
C33_BacklogOrder ==
  pc = "drain" =>
    \A m \in 1..Len(videos) : \A n \in (m + 1)..Len(videos) :
      LET v == videos[m]
          w == videos[n]
          vp == v.owner \in priority_creators_collection
          wp == w.owner \in priority_creators_collection
      IN /\ ~(wp /\ ~vp)
         /\ vp = wp => TypeRank(v) <= TypeRank(w)
         /\ (vp = wp /\ v.video_type = w.video_type) =>
              ~(v.status # "published" /\ w.status = "published")
         /\ SameKeys(v, w) => CreationTime(v) <= CreationTime(w)

\* a backlog of four items: the published and the scheduled legacy item of a
\* priority creator, the scheduled one created first, then the embed and the
\* audio item of other creators
C33_Witness ==
  /\ pc = "drain" /\ Len(videos) = 4
  /\ world.creators = { "alice" }
  /\ videos[1].video_type = "legacy" /\ videos[1].status = "published"
  /\ videos[2].video_type = "legacy" /\ videos[2].status = "scheduled"
  /\ videos[2].created < videos[1].created
  /\ videos[3].video_type = "embed"
  /\ videos[4].video_type = "audio"

\* C35: save_processing_time is the last write a dispatch makes to the
\* progress collection: it is called when no eligible language is left to
\* save, and it creates no record when none exists. So every progress record
\* holds at least one completed language.
C35_ProcessingTimeCreatesNoRecord ==
  /\ \A k \in Records : DOMAIN subtitles_collection[k].subtitles # {}
  /\ pc = "pv_time" =>
       /\ eligible_languages = << >>
       /\ subtitles_collection[KeyOf(video)] = NoDoc =>
            save_processing_time(video.owner, video.permlink) = subtitles_collection
  /\ (pc = "clear" /\ result) => eligible_languages = << >>

\* with store writes enabled a dispatch attempted both languages, completed
\* none, and returned through save_processing_time: the item has no record
C35_Witness ==
  /\ pc = "clear" /\ result
  /\ enable_mongo_write
  /\ disp.attempted = { "en", "es" }
  /\ subtitles_collection[KeyOf(video)] = NoDoc
  /\ events = 0

\* a step the scheduler makes inside process_video
DispatchStep == pc \in InProcessVideo /\ << pc, locals >>' # << pc, locals >>

\* every language key of every progress record maps to a non-empty CID
EveryLanguageHasCid ==
  \A k \in Records : \A l \in DOMAIN subtitles_collection[k].subtitles :
    ~Falsy(subtitles_collection[k].subtitles[l])

\* a step adds language l to the record of k
Adds(k, l) ==
  /\ subtitles_collection'[k] # NoDoc
  /\ l \in DOMAIN subtitles_collection'[k].subtitles
  /\ l \notin RecordedLanguages(k)

\* C36 as stated: each language key of every progress record maps to a
\* non-empty CID, a language is added only when store writing and IPFS
\* pinning are both enabled and the add to IPFS returned a CID, and with
\* either flag off a dispatch leaves the progress collection unchanged.
C36_EitherFlagOffLeavesProgress ==
  /\ [] EveryLanguageHasCid
  /\ [][ /\ \A k \in Keys : \A l \in all_lang_codes :
              Adds(k, l) => /\ enable_mongo_write /\ enable_ipfs_pin
                            /\ ~Falsy(subtitles_collection'[k].subtitles[l])
         /\ (DispatchStep /\ ~(enable_mongo_write /\ enable_ipfs_pin)) =>
              subtitles_collection' = subtitles_collection ]_vars

\* C36, amended: each language key of every progress record maps to a
\* non-empty CID, a language is added only when store writing and IPFS
\* pinning are both enabled and the add to IPFS returned a CID; with store
\* writing off a dispatch leaves the progress collection unchanged, and with
\* IPFS pinning off it leaves the languages of every record unchanged.
C36_FlagsGateTheLanguages ==
  /\ [] EveryLanguageHasCid
  /\ [][ /\ \A k \in Keys : \A l \in all_lang_codes :
              Adds(k, l) => /\ enable_mongo_write /\ enable_ipfs_pin
                            /\ ~Falsy(subtitles_collection'[k].subtitles[l])
         /\ (DispatchStep /\ ~enable_mongo_write) =>
              subtitles_collection' = subtitles_collection
         /\ (DispatchStep /\ ~enable_ipfs_pin) =>
              \A k \in Keys :
                /\ (subtitles_collection'[k] = NoDoc) = (subtitles_collection[k] = NoDoc)
                /\ subtitles_collection[k] # NoDoc =>
                     subtitles_collection'[k].subtitles
                       = subtitles_collection[k].subtitles ]_vars

\* with IPFS pinning off and store writing on, a dispatch of the partly
\* processed video generated es, did not record it, and wrote the processing
\* time to the record that holds en
C36_Witness ==
  /\ ~enable_ipfs_pin /\ enable_mongo_write
  /\ pc = "clear" /\ result
  /\ KeyOf(video) = << "alice", "p1" >>
  /\ disp.attempted = { "es" }
  /\ RecordedLanguages(KeyOf(video)) = { "en" }
  /\ "processing_seconds" \in DOMAIN subtitles_collection[KeyOf(video)]

\* the status codes with which a mutating dashboard operation rejects a request
Rejected == { 400, 403, 404, 409 }

\* C40: a request that a mutating dashboard operation rejects (403 for a
\* wrong or missing password, 400, 404, 409) leaves the priority, blacklist,
\* progress and tags collections as they were. It is stated of every request
\* each of the seven operations can receive in the current store.
C40_RejectedRequestChangesNothing ==
  /\ \A req \in Requests(Refs) :
       /\ api_prioritize(req.password_ok, req.arg).code \in Rejected =>
            api_prioritize(req.password_ok, req.arg).priority = priority_collection
       /\ api_blacklist_add(req.password_ok, req.arg).code \in Rejected =>
            api_blacklist_add(req.password_ok, req.arg).blacklist = blacklist_collection
       /\ api_reprocess(req.password_ok, req.arg).code \in Rejected =>
            /\ api_reprocess(req.password_ok, req.arg).subtitles = subtitles_collection
            /\ api_reprocess(req.password_ok, req.arg).tags = tags_collection
            /\ api_reprocess(req.password_ok, req.arg).priority = priority_collection
  /\ \A req \in Requests(3..clock) :
       api_priority_delete(req.password_ok, req.arg).code \in Rejected =>
         api_priority_delete(req.password_ok, req.arg).priority = priority_collection
  /\ \A req \in Requests(Keys) :
       api_blacklist_delete(req.password_ok, req.arg).code \in Rejected =>
         api_blacklist_delete(req.password_ok, req.arg).blacklist = blacklist_collection
  /\ \A req \in Requests(Authors \cup { "" }) :
       api_blacklist_authors_add(req.password_ok, req.arg).code \in Rejected =>
         api_blacklist_authors_add(req.password_ok, req.arg).authors
           = blacklist_authors_collection
  /\ \A req \in Requests(Authors) :
       api_blacklist_authors_delete(req.password_ok, req.arg).code \in Rejected =>
         api_blacklist_authors_delete(req.password_ok, req.arg).authors
           = blacklist_authors_collection

\* alice/p1 is queued and blacklisted: a second enqueue and a second
\* blacklisting of it are answered 409, an enqueue of bob/gone 404, a request
\* without permlink 400, a removal of an author entry that does not exist 404
C40_Witness ==
  /\ api_prioritize(TRUE, << "alice", "p1" >>).code = 409
  /\ api_blacklist_add(TRUE, << "alice", "p1" >>).code = 409
  /\ api_prioritize(TRUE, << "bob", "gone" >>).code = 404
  /\ api_reprocess(TRUE, << "alice", "" >>).code = 400
  /\ api_reprocess(FALSE, << "alice", "p1" >>).code = 403
  /\ api_blacklist_authors_delete(TRUE, "bob").code = 404

\* C37: the priority lane never holds two entries for the same (author,
\* permlink) pair, however enqueue-priority and reprocess requests are
\* interleaved with each other and with the pops of the scheduler.
C37_OneEntryPerPair ==
  \A e \in priority_collection : \A f \in priority_collection :
    (e.author = f.author /\ e.permlink = f.permlink) => e = f

\* when a result was generated (0: never)
MadeAt(k, l) == IF << k, l >> \in DOMAIN madeAt THEN madeAt[<< k, l >>] ELSE 0

\* C38: a reprocess works even when it races with the scheduler. When the
\* request arrived while the item was in flight, then once the entry it queued
\* was dispatched to completion every language result in the record was
\* generated after the request arrived.
C38_ReprocessWinsTheRace ==
  (/\ lane = "priority" /\ pc = "clear" /\ result
   /\ popLog # << >>)
  => \A r \in raceReq :
       r.entry = popLog[Len(popLog)].entry.requested_at =>
         \A l \in RecordedLanguages(KeyOf(video)) : MadeAt(KeyOf(video), l) > r.at

\* C34: when PROCESS_ONLY names owner/permlink, the run processes only that
\* video: process_video is invoked for no other item, whatever the cursor and
\* the priority lane hold.
C34_OnlyTheNamedVideo ==
  (process_only # NoRef /\ pc \in InProcessVideo) => KeyOf(video) = process_only

\* C39: a run ends when only finitely many priority requests are enqueued.
\* A run that was started reaches the summary or the no-candidates exit, and
\* every drain phase is followed by the visit of the next normal candidate;
\* the index moves by one, past the candidate that was just visited as the
\* normal one, and the run ends only after the last candidate.
C39_RunTerminates ==
  /\ (pc = "drain") ~> (pc = "done")
  /\ \A n \in 1..2 :
       (pc = "drain" /\ i = n) ~> (pc = "check" /\ lane = "normal" /\ i = n)
  /\ [][ /\ (pc \notin { "idle", "done" } /\ i' # i) =>
              i' = i + 1 /\ lane = "normal" /\ video = videos[i]
         /\ (pc \notin { "idle", "done" } /\ pc' = "done") => i' = Len(videos) + 1 ]_vars

\* a run ended after two priority entries were drained and both candidates
\* were visited
C39_Witness ==
  /\ pc = "done" /\ runs = 1
  /\ Len(videos) = 2 /\ i = 3
  /\ Len(popLog) = 2
  /\ priority_collection = {}

====
